---- MODULE Spec2Model ----
(***************************************************************************)
(* Model of the TII scoring and classification engine of nba-integrity:    *)
(* the batch pipeline (src/tii) and the calibration dashboard              *)
(* (src/dashboard.py).                                                     *)
(*                                                                         *)
(* Numbers.  Scores are kept in tenths of a point (the code rounds every   *)
(* score to one decimal), weights in hundredths.  Python floats are        *)
(* modelled by exact rational arithmetic and round(x, 1) by rounding the   *)
(* exact value half-to-even, which is what round() does on a value that    *)
(* is exactly representable; binary representation error is not modelled.  *)
(***************************************************************************)
EXTENDS Integers, Sequences, FiniteSets, TLC

VARIABLES
    \* --- classification (config.classify_tii / dashboard.classify_plain)
    score,          \* the composite score being classified, in tenths
    green_max,      \* dashboard slider "Green ceiling"
    yellow_max,     \* dashboard slider "Yellow ceiling"
    orange_max,     \* dashboard slider "Orange ceiling"
    tii_label,      \* result of the batch classifier for score, or "none"
    plain_label,    \* result of the dashboard classifier for score, or "none"
    \* --- composite (composite.compute_composite / dashboard scoreboard loop)
    raw_scores,     \* component -> raw component score, in tenths
    weights,        \* component -> dashboard weight slider, in hundredths
    batch_result,   \* result record of compute_composite, or None
    dash_result,    \* the scoreboard row computed by the dashboard, or None
    \* --- raw tables and the elimination resolver (elimination.py)
    game_logs,      \* team_game_logs rows of the case's team, by game_number
    standings,      \* standings_snapshots of the season: team -> wins
    cutoff_seed,    \* the case's playoff_cutoff_seed
    elim_result,    \* what compute_elimination_date returned, or None
    \* --- one component bundle in front of its two scorers
    scored_component, \* the component the bundle belongs to
    bundle,           \* the stored data dict, if the cache has one
    thresholds,       \* the dashboard's threshold sliders
    batch_score,      \* what the batch scorer returned, if it ran
    dash_score,       \* what the dashboard scorer returned, if it ran
    \* --- the compute pipeline of one case (cli.run_case) over the cache
    player_game_logs, \* raw table player_game_logs of the case
    box_scores,       \* raw table box_scores_advanced of the case
    player_box,       \* raw table box_scores_advanced_players of the case
    cache,            \* computed_metrics: component -> stored row, if any
    pc,               \* the step of run_case that runs next, or "idle"
    run_bundles,      \* what each compute_* of the current run returned
    run_result,       \* what compute_composite of the current run returned
    last_store,       \* the arguments of the latest store_computed call
    ever_stored,      \* the components store_computed was ever called for
    runs,             \* runs of run_case started so far
    ingests,          \* ingest steps taken so far
    snapshot,         \* the cache as the first run over the present tables left it
    tables_changed,   \* an ingest changed a raw table since that run
    \* --- the computed_metrics table under concurrent store_computed calls
    db,               \* the committed rows of computed_metrics
    wpc,              \* writer -> where its store_computed call stands
    wreq,             \* writer -> the arguments of its store_computed call
    write_lock,       \* the writer holding SQLite's write lock, if any
    last_commit,      \* key -> the arguments of the latest committed store
    overwritten,      \* the keys a commit replaced a different value at
    load_result,      \* what the latest load_computed call returned
    \* --- the match flag against the case's expected classification
    expected_labels,  \* the labels the case's expected classification names
    expected,         \* case["expected_classification"], as characters
    batch_match,      \* result["match"] of compute_composite, if it ran
    dash_match,       \* match of the scoreboard row, if it was computed
    \* --- the rolling net rating block of compute_nrci
    net_rating,       \* merged["net_rating"] by game, in tenths of a point
    rolling_result,   \* result["rolling_net_rating"], or None before it ran
    \* --- the rotation changes block of compute_ris
    pre_avg_minutes,  \* player -> pre_avg_minutes of the baseline, in tenths
    post_avg_minutes, \* player -> avg_minutes in post_summary, if it has a row
    post_elim_changes, \* result["post_elim_changes"], or None before it ran
    \* --- callers of run_case for one case side by side, over the same cache
    serialized,       \* the callers wait for each other's run to finish
    ppc,              \* caller -> the step of run_case it is at, or "idle"
    caller_loaded,    \* caller -> the bundles compute_composite has loaded
    snapshots,        \* every content the four bundle rows had so far
    race_runs,        \* runs of run_case started so far, by all callers
    \* --- the dashboard's load_all_case_data
    skip_case,        \* case -> cfg.get("skip")
    json_export,      \* case -> content of data/computed/case_<cid>.json, if any
    use_cache,        \* _USE_CACHE: the import of tii.cache succeeded
    computed_rows,    \* case -> metric -> data of the computed_metrics row, if any
    all_data,         \* what load_all_case_data returned, or None before it ran
    \* --- the registry of user-added cases (cases_store.py)
    registry,         \* data/cases.json: case id -> entry
    activity_log,     \* data/activity_log.jsonl: the events appended so far
    add_request,      \* the arguments of the latest add_dynamic_case call
    add_result,       \* what that call returned
    \* --- the pre/post-elimination splits and the BTCA calendar periods
    season_log,       \* team_game_logs of the season, by game_number
    season_cutoff,    \* the win total of the cutoff seed
    missed_game_ids,  \* qualified player -> the games absent from their log
    trade_deadline,   \* TRADE_DEADLINES.get(season)
    asb_date,         \* ASB_DATES.get(season)
    split_result,     \* the split blocks of SAS, NRCI, RIS and BTCA, or None
    calendar_result,  \* calendar_correlation["periods"], or None before it ran
    \* --- the preferences file under set_pref calls of two sessions
    prefs_file,       \* data/case_prefs.json: case id -> key -> value
    session_pc,       \* session -> where its set_pref call stands
    session_req,      \* session -> the arguments of its set_pref call
    session_prefs,    \* session -> the dict its load_case_prefs returned
    last_written,     \* (case id, key) -> the value of the latest finished call
    pref_calls        \* set_pref calls started so far

clsVars == <<score, green_max, yellow_max, orange_max, tii_label, plain_label>>
compVars == <<raw_scores, weights, batch_result, dash_result>>
elimVars == <<game_logs, standings, cutoff_seed, elim_result>>
scoreVars == <<scored_component, bundle, thresholds, batch_score, dash_score>>

pipeVars == <<player_game_logs, box_scores, player_box, cache, pc, run_bundles,
              run_result, last_store, ever_stored, runs, ingests, snapshot,
              tables_changed>>

dbVars == <<db, wpc, wreq, write_lock, last_commit, overwritten, load_result>>

matchVars == <<expected_labels, expected, batch_match, dash_match>>

rollVars == <<net_rating, rolling_result>>

rotVars == <<pre_avg_minutes, post_avg_minutes, post_elim_changes>>

\* the parts grouped for the frames below
earlyVars == <<clsVars, compVars, elimVars, scoreVars, pipeVars, dbVars, matchVars,
               rollVars>>
raceVars == <<serialized, ppc, caller_loaded, snapshots, race_runs>>
dashVars == <<skip_case, json_export, use_cache, computed_rows, all_data>>
regVars == <<registry, activity_log, add_request, add_result>>
splitVars == <<season_log, season_cutoff, missed_game_ids, trade_deadline, asb_date,
               split_result, calendar_result>>
prefVars == <<prefs_file, session_pc, session_req, session_prefs, last_written,
              pref_calls>>
lateVars == <<rotVars, raceVars, dashVars, regVars, splitVars, prefVars>>

vars == <<earlyVars, lateVars>>

\* what an action of one part leaves alone: the other parts' variables
ClsFrame ==
    UNCHANGED <<compVars, elimVars, scoreVars, pipeVars, dbVars, matchVars, rollVars, lateVars>>
CompFrame ==
    UNCHANGED <<clsVars, elimVars, scoreVars, pipeVars, dbVars, matchVars, rollVars, lateVars>>
ElimFrame ==
    UNCHANGED <<clsVars, compVars, scoreVars, pipeVars, dbVars, matchVars, rollVars, lateVars>>
ScoreFrame ==
    UNCHANGED <<clsVars, compVars, elimVars, pipeVars, dbVars, matchVars, rollVars, lateVars>>
PipeFrame ==
    UNCHANGED <<clsVars, compVars, scoreVars, dbVars, matchVars, rollVars, lateVars>>
DbFrame ==
    UNCHANGED <<clsVars, compVars, elimVars, scoreVars, pipeVars, matchVars, rollVars, lateVars>>
RollFrame ==
    UNCHANGED <<clsVars, compVars, elimVars, scoreVars, pipeVars, dbVars, matchVars, lateVars>>
RotFrame ==
    UNCHANGED <<earlyVars, raceVars, dashVars, regVars, splitVars, prefVars>>
RaceFrame ==
    UNCHANGED <<clsVars, compVars, scoreVars, dbVars, matchVars, rollVars, rotVars,
                dashVars, regVars, splitVars, prefVars>>
PrefFrame ==
    UNCHANGED <<earlyVars, rotVars, raceVars, dashVars, regVars, splitVars>>
DashFrame ==
    UNCHANGED <<earlyVars, rotVars, raceVars, regVars, splitVars, prefVars>>
RegFrame ==
    UNCHANGED <<earlyVars, rotVars, raceVars, dashVars, splitVars, prefVars>>
SplitFrame ==
    UNCHANGED <<earlyVars, rotVars, raceVars, dashVars, regVars, prefVars>>
MatchFrame ==
    UNCHANGED <<compVars, elimVars, scoreVars, pipeVars, dbVars, rollVars, lateVars>>

(***************************************************************************)
(* Units and program constants                                             *)
(***************************************************************************)
\* one point = 10 tenths: every score is round(x, 1)
Tenth == 10

\* scores live in [0, 100]
ScoreCeiling == 100

Scores == 0..(ScoreCeiling * Tenth)

Labels == {"Green", "Yellow", "Orange", "Red"}

\* Python's None: no result yet, or "not found"
None == [none |-> TRUE]

\* stride of the sampled dashboard slider positions
BoundaryStride == 30

\* slider positions lo..hi sampled every stride, always with the two ends
\* and the slider's default
Grid(lo, hi, stride, default) ==
    {v \in lo..hi : (v - lo) % stride = 0 \/ v = hi \/ v = default}

SetMin(S) == CHOOSE x \in S : \A y \in S : x <= y
SetMax(S) == CHOOSE x \in S : \A y \in S : x >= y

(***************************************************************************)
(* Batch classifier: config.CLASSIFICATIONS and config.classify_tii        *)
(***************************************************************************)
CLASSIFICATIONS ==
    << [low |-> 0,  high |-> 25,  label |-> "Green"],
       [low |-> 26, high |-> 50,  label |-> "Yellow"],
       [low |-> 51, high |-> 75,  label |-> "Orange"],
       [low |-> 76, high |-> 100, label |-> "Red"] >>

\* for low, high, label in CLASSIFICATIONS: if low <= score <= high: return
\* label; return "Red" if score > 100 else "Green"
classify_tii(s) ==
    LET hits == {i \in 1..Len(CLASSIFICATIONS) :
                    /\ CLASSIFICATIONS[i].low * Tenth <= s
                    /\ s <= CLASSIFICATIONS[i].high * Tenth}
    IN  IF hits # {} THEN CLASSIFICATIONS[SetMin(hits)].label
        ELSE IF s > 100 * Tenth THEN "Red" ELSE "Green"

(***************************************************************************)
(* Dashboard classifier: the three boundary sliders and classify_plain     *)
(***************************************************************************)
\* a variant that gives each boundary to the upper label
classify_plain_strict(s, g, y, o) ==
    IF s < g * Tenth THEN "Green"
    ELSE IF s < y * Tenth THEN "Yellow"
    ELSE IF s < o * Tenth THEN "Orange"
    ELSE "Red"

classify_plain(s, g, y, o) ==
    IF s <= g * Tenth THEN "Green"
    ELSE IF s <= y * Tenth THEN "Yellow"
    ELSE IF s <= o * Tenth THEN "Orange"
    ELSE "Red"

\* st.sidebar.slider(label, min, max, default, step): the positions the three
\* boundary sliders can take; each slider's minimum is the previous ceiling + 1.
\* A slider is only built when its default lies inside its range, so the green
\* ceiling stays below the yellow default and the yellow ceiling below the
\* orange default.
GreenPositions == Grid(5, 49, BoundaryStride, 25)
YellowPositions(g) == Grid(g + 1, 74, BoundaryStride, 50)
OrangePositions(y) == Grid(y + 1, 95, BoundaryStride, 75)

ClsInit ==
    /\ score \in Scores
    /\ green_max = 25
    /\ yellow_max = 50
    /\ orange_max = 75
    /\ tii_label = "none"
    /\ plain_label = "none"

\* compute_composite: classification = classify_tii(composite)
BatchClassify ==
    /\ tii_label' = classify_tii(score)
    /\ UNCHANGED <<score, plain_label, green_max, yellow_max, orange_max>>
    /\ ClsFrame

\* a dashboard rerun: the script reads the three sliders and classifies the
\* composite with classify_plain
DashboardClassify(g, y, o) ==
    /\ green_max' = g
    /\ yellow_max' = y
    /\ orange_max' = o
    /\ plain_label' = classify_plain(score, g, y, o)
    /\ UNCHANGED <<score, tii_label>>
    /\ ClsFrame

ClsNext ==
    \/ BatchClassify
    \/ \E g \in GreenPositions : \E y \in YellowPositions(g) :
          \E o \in OrangePositions(y) : DashboardClassify(g, y, o)

(***************************************************************************)
(* Composite: composite.compute_composite (batch) and the dashboard        *)
(* scoreboard loop                                                         *)
(***************************************************************************)
Components == {"SAS", "NRCI", "RIS", "BTCA"}

\* config.WEIGHTS, in hundredths
WEIGHTS == [c \in Components |->
              CASE c = "SAS" -> 30 [] c = "NRCI" -> 25
                [] c = "RIS" -> 25 [] c = "BTCA" -> 20]

\* weights are kept in hundredths
Hundredth == 100

\* n/d rounded to the nearest integer, ties to the even one (d > 0)
RoundTo(n, d) ==
    LET q == n \div d
        r == n % d
    IN  IF 2 * r < d THEN q
        ELSE IF 2 * r > d THEN q + 1
        ELSE IF q % 2 = 0 THEN q ELSE q + 1

\* sum of f[c] over the four components
SumOver(f) == f["SAS"] + f["NRCI"] + f["RIS"] + f["BTCA"]

\* for comp, raw_score in components.items(): ws = round(raw_score * w, 1);
\* composite += ws.  composite = round(composite, 1)
batch_composite(raw) ==
    LET ws == [c \in Components |-> RoundTo(raw[c] * WEIGHTS[c], Hundredth)]
    IN  [weighted_scores |-> ws,
         composite_score |-> RoundTo(SumOver(ws), 1)]

\* composite = round(sas * w_sas + nrci * w_nrci + ris * w_ris + btca * w_btca, 1)
scoreboard_composite(raw, w) ==
    RoundTo(SumOver([c \in Components |-> raw[c] * w[c]]), Hundredth)

\* stride of the sampled component scores (tenths) and weight sliders
\* (hundredths)
ScoreStride == 500
WeightStride == 50

\* component scores: round(score, 1) values in [0, 100]
ComponentScores == Grid(0, ScoreCeiling * Tenth, ScoreStride, 1)

\* st.sidebar.slider("... weight", 0.0, 1.0, default, 0.05)
WeightPositions(c) ==
    {w \in 0..Hundredth :
        w % 5 = 0 /\ (w % WeightStride = 0 \/ w = Hundredth \/ w = WEIGHTS[c])}

ClsIdle ==
    /\ score = 0
    /\ green_max = 25
    /\ yellow_max = 50
    /\ orange_max = 75
    /\ tii_label = "none"
    /\ plain_label = "none"

CompIdle ==
    /\ raw_scores = [c \in Components |-> 0]
    /\ weights = WEIGHTS
    /\ batch_result = None
    /\ dash_result = None

CompInit ==
    /\ raw_scores \in [Components -> ComponentScores]
    /\ weights = WEIGHTS
    /\ batch_result = None
    /\ dash_result = None

\* compute_composite, lines 227-246: the weighted composite of the run
BatchComposite ==
    /\ batch_result' = batch_composite(raw_scores)
    /\ UNCHANGED <<raw_scores, weights, dash_result>>
    /\ CompFrame

\* a dashboard rerun after weight slider c moved to w
ScoreboardComposite(c, w) ==
    /\ weights' = [weights EXCEPT ![c] = w]
    /\ dash_result' = [composite_score |-> scoreboard_composite(raw_scores, weights')]
    /\ UNCHANGED <<raw_scores, batch_result>>
    /\ CompFrame

CompNext ==
    \/ BatchComposite
    \/ \E c \in Components : \E w \in WeightPositions(c) :
          ScoreboardComposite(c, w)

(***************************************************************************)
(* Raw tables: team_game_logs and standings_snapshots                      *)
(***************************************************************************)
\* bounds of the raw tables
MaxGames == 4
MaxEastTeams == 2
MaxStandingWins == 3
MaxSeed == 3

\* the case's team is team 1; teams 1..MaxEastTeams play in its conference
\* and one more team plays in the other one (config.EAST_TEAMS / WEST_TEAMS)
CaseTeam == 1
Teams == 1..(MaxEastTeams + 1)
get_conference(t) == IF t <= MaxEastTeams THEN "East" ELSE "West"

\* an Optional value: {} is None, {v} is v
Some(v) == {v}
Nothing == {}
The(opt) == CHOOSE v \in opt : TRUE

\* ingest_team_game_logs: rows sorted by date and numbered 1..N; w and l are
\* the team's record after the game; game_date is the day of the game
GameRows(wl) ==
    [k \in 1..Len(wl) |->
        [game_number |-> k,
         game_date |-> k,
         wl |-> wl[k],
         w |-> Cardinality({i \in 1..k : wl[i] = "W"}),
         l |-> Cardinality({i \in 1..k : wl[i] = "L"})]]

RECURSIVE SeqsUpTo(_, _)
SeqsUpTo(S, n) ==
    IF n = 0 THEN {<<>>}
    ELSE LET shorter == SeqsUpTo(S, n - 1)
         IN  shorter \cup {Append(q, x) : q \in shorter, x \in S}

\* the game logs a team-season can have: empty (nothing ingested) or N games
GameLogTables == {GameRows(wl) : wl \in SeqsUpTo({"W", "L"}, MaxGames)}

\* the standings of a season: empty, or one row per team
EmptyTable == <<>>
StandingsTables ==
    {EmptyTable} \cup [Teams -> 0..MaxStandingWins]

(***************************************************************************)
(* Elimination resolver: elimination.compute_elimination_date              *)
(***************************************************************************)
\* standings[standings["conference"] == conf].sort_values("wins",
\* ascending=False): the wins of the conference's teams, highest first
RECURSIVE SortWinsDesc(_, _)
SortWinsDesc(ts, st) ==
    IF ts = {} THEN <<>>
    ELSE LET t == CHOOSE t \in ts : \A u \in ts : st[t] >= st[u]
         IN  <<st[t]>> \o SortWinsDesc(ts \ {t}, st)

conf_standings(st, conf) ==
    SortWinsDesc({t \in DOMAIN st : get_conference(t) = conf}, st)

\* a variant of the walk that tests max_possible <= cutoff_wins
RECURSIVE elimination_walk_le(_, _, _, _)
elimination_walk_le(gl, i, wins_before, cutoff_wins) ==
    IF i > Len(gl)
    THEN [date |-> Nothing, game |-> Nothing, wins_so_far |-> wins_before]
    ELSE LET wins_so_far == wins_before + (IF gl[i].wl = "W" THEN 1 ELSE 0)
             games_played == gl[i].game_number
             remaining == Len(gl) - games_played
             max_possible == wins_so_far + remaining
         IN  IF max_possible <= cutoff_wins
             THEN [date |-> Some(gl[i].game_date), game |-> Some(games_played),
                   wins_so_far |-> wins_so_far]
             ELSE elimination_walk_le(gl, i + 1, wins_so_far, cutoff_wins)

\* the walk with the game just played still counted as remaining
RECURSIVE elimination_walk_counts_game(_, _, _, _)
elimination_walk_counts_game(gl, i, wins_before, cutoff_wins) ==
    IF i > Len(gl)
    THEN [date |-> Nothing, game |-> Nothing, wins_so_far |-> wins_before]
    ELSE LET wins_so_far == wins_before + (IF gl[i].wl = "W" THEN 1 ELSE 0)
             games_played == gl[i].game_number
             remaining == Len(gl) - games_played + 1
             max_possible == wins_so_far + remaining
         IN  IF max_possible < cutoff_wins
             THEN [date |-> Some(gl[i].game_date), game |-> Some(games_played),
                   wins_so_far |-> wins_so_far]
             ELSE elimination_walk_counts_game(gl, i + 1, wins_so_far, cutoff_wins)

\* for _, row in game_logs.iterrows(): ... if max_possible < cutoff_wins:
\* elim_date = row["game_date"]; elim_game = games_played; break
RECURSIVE elimination_walk(_, _, _, _)
elimination_walk(gl, i, wins_before, cutoff_wins) ==
    IF i > Len(gl)
    THEN [date |-> Nothing, game |-> Nothing, wins_so_far |-> wins_before]
    ELSE LET wins_so_far == wins_before + (IF gl[i].wl = "W" THEN 1 ELSE 0)
             games_played == gl[i].game_number
             remaining == Len(gl) - games_played
             max_possible == wins_so_far + remaining
         IN  IF max_possible < cutoff_wins
             THEN [date |-> Some(gl[i].game_date), game |-> Some(games_played),
                   wins_so_far |-> wins_so_far]
             ELSE elimination_walk(gl, i + 1, wins_so_far, cutoff_wins)

\* compute_elimination_date: the returned dict.  An error result has the one
\* key "error" and is not stored.
\* compute_elimination_date without the len(conf_standings) < cutoff_seed
\* check: conf_standings.iloc[cutoff_seed - 1] raises IndexError
compute_elimination_date_unchecked(gl, st, seed) ==
    IF st = EmptyTable \/ gl = EmptyTable
    THEN [error |-> "Missing data"]
    ELSE LET conf == get_conference(CaseTeam)
             cs == conf_standings(st, conf)
         IN  IF Len(cs) < seed
             THEN [raised |-> "IndexError"]
             ELSE LET cutoff_wins == cs[seed]
                      walk == elimination_walk(gl, 1, 0, cutoff_wins)
                  IN  [elimination_date |-> walk.date,
                       elimination_game_number |-> walk.game,
                       playoff_cutoff_wins |-> cutoff_wins,
                       playoff_cutoff_seed |-> seed,
                       conference |-> conf,
                       final_wins |-> IF walk.date = Nothing
                                      THEN Some(gl[Len(gl)].w)
                                      ELSE Nothing]

compute_elimination_date(gl, st, seed) ==
    IF st = EmptyTable \/ gl = EmptyTable
    THEN [error |-> "Missing data"]
    ELSE LET conf == get_conference(CaseTeam)
             cs == conf_standings(st, conf)
         IN  IF Len(cs) < seed
             THEN [error |-> "Not enough teams"]
             ELSE LET cutoff_wins == cs[seed]
                      walk == elimination_walk(gl, 1, 0, cutoff_wins)
                  IN  [elimination_date |-> walk.date,
                       elimination_game_number |-> walk.game,
                       playoff_cutoff_wins |-> cutoff_wins,
                       playoff_cutoff_seed |-> seed,
                       conference |-> conf,
                       final_wins |-> IF walk.date = Nothing
                                      THEN Some(gl[Len(gl)].w)
                                      ELSE Nothing]

IsError(d) == "error" \in DOMAIN d

ElimIdle ==
    /\ game_logs = EmptyTable
    /\ standings = EmptyTable
    /\ cutoff_seed = 1
    /\ elim_result = None

\* the tables as some ingest left them, and the case's cutoff seed
ElimInit ==
    /\ game_logs \in GameLogTables
    /\ standings \in StandingsTables
    /\ cutoff_seed \in 1..MaxSeed
    /\ elim_result = None

ResolveElimination ==
    /\ elim_result' = compute_elimination_date(game_logs, standings, cutoff_seed)
    /\ UNCHANGED <<game_logs, standings, cutoff_seed>>
    /\ ElimFrame

ElimNext == ResolveElimination

(***************************************************************************)
(* Exact arithmetic for the scorers.  A Python float is modelled by the    *)
(* rational it denotes: a pair <<n, d>> with d > 0 in lowest terms.        *)
(* Numbers in a bundle and slider values are held in thousandths.          *)
(***************************************************************************)
Milli == 1000

RECURSIVE GCD(_, _)
GCD(a, b) == IF b = 0 THEN a ELSE GCD(b, a % b)

Abs(x) == IF x < 0 THEN -x ELSE x
Min(a, b) == IF a <= b THEN a ELSE b

Rat(n, d) ==
    LET s == IF d < 0 THEN -1 ELSE 1
        g == GCD(Abs(n), Abs(d))
    IN  <<(s * n) \div g, (s * d) \div g>>

Whole(k) == <<k, 1>>
Num(v) == Rat(v, Milli)
Dec(n, d) == Rat(n, d)

RAdd(a, b) == Rat(a[1] * b[2] + b[1] * a[2], a[2] * b[2])
RSub(a, b) == Rat(a[1] * b[2] - b[1] * a[2], a[2] * b[2])
RMul(a, b) == Rat(a[1] * b[1], a[2] * b[2])
RDiv(a, b) == Rat(a[1] * b[2], a[2] * b[1])
RLt(a, b) == a[1] * b[2] < b[1] * a[2]
RGt(a, b) == RLt(b, a)
RGe(a, b) == ~RLt(a, b)
\* a variant of abs that leaves the sign alone
RAbs_identity(a) == a
RAbs(a) == <<Abs(a[1]), a[2]>>
RMin(a, b) == IF RLt(b, a) THEN b ELSE a
RMax(a, b) == IF RLt(a, b) THEN b ELSE a

\* min(round(score, 1), 100), in tenths
Capped(total) == Min(RoundTo(Tenth * total[1], total[2]), ScoreCeiling * Tenth)

\* dict.get(key, default); {} is the empty dict
EmptyDict == [k \in {} |-> 0]
Get(d, k, default) == IF k \in DOMAIN d THEN d[k] ELSE default
Truthy(d, k) == k \in DOMAIN d

(***************************************************************************)
(* Batch scorers: composite._score_sas .. _score_btca                      *)
(***************************************************************************)
_score_sas(data) ==
    LET summ == Get(data, "absence_summary", EmptyDict)
        absence_rate == Num(Get(summ, "absence_rate", 0))
        s1 == IF RGt(absence_rate, Dec(50, 100))
              THEN RAdd(Whole(30),
                        RMin(RMul(RSub(absence_rate, Dec(50, 100)), Whole(100)),
                             Whole(10)))
              ELSE IF RGt(absence_rate, Dec(25, 100))
              THEN RAdd(Whole(15), RMul(RSub(absence_rate, Dec(25, 100)), Whole(60)))
              ELSE IF RGt(absence_rate, Dec(10, 100))
              THEN RMul(RSub(absence_rate, Dec(10, 100)), Whole(100))
              ELSE Whole(0)
        clust == Get(data, "clustering", EmptyDict)
        ratio == Num(Get(clust, "cluster_ratio", 0))
        s2 == IF RGe(ratio, Whole(3)) THEN Whole(30)
              ELSE IF RGe(ratio, Whole(2))
              THEN RAdd(Whole(20), RMul(RSub(ratio, Whole(2)), Whole(10)))
              ELSE IF RGe(ratio, Dec(15, 10))
              THEN RAdd(Whole(10), RMul(RSub(ratio, Dec(15, 10)), Whole(20)))
              ELSE IF RGe(ratio, Whole(1))
              THEN RMul(RSub(ratio, Whole(1)), Whole(20))
              ELSE Whole(0)
        dist == Get(data, "distribution", EmptyDict)
        loss_rate == Num(Get(dist, "loss_absence_rate", 0))
        win_rate == Num(Get(dist, "win_absence_rate", 0))
        s3 == IF RGt(loss_rate, Whole(0)) /\ RGt(win_rate, Whole(0))
              THEN LET skew == RDiv(loss_rate, win_rate)
                   IN  IF RGe(skew, Whole(2)) THEN Whole(30)
                       ELSE IF RGe(skew, Dec(15, 10))
                       THEN RAdd(Whole(15), RMul(RSub(skew, Dec(15, 10)), Whole(30)))
                       ELSE IF RGe(skew, Whole(1))
                       THEN RMul(RSub(skew, Whole(1)), Whole(30))
                       ELSE Whole(0)
              ELSE Whole(0)
    IN  Capped(RAdd(RAdd(s1, s2), s3))

\* the close-game term of _score_nrci with a default of 0 for a missing
\* close_game_win_pct
nrci_close_term_default0(q4) ==
    LET close_wp == Num(Get(q4, "close_game_win_pct", 0))
    IN  IF RLt(close_wp, Dec(200, 1000)) THEN Whole(30)
        ELSE IF RLt(close_wp, Dec(350, 1000))
        THEN RAdd(Whole(15), RMul(RSub(Dec(350, 1000), close_wp), Whole(100)))
        ELSE IF RLt(close_wp, Dec(450, 1000))
        THEN RMul(RSub(Dec(450, 1000), close_wp), Whole(150))
        ELSE Whole(0)

\* close_wp = q4.get("close_game_win_pct", 0.5) and its three bands
nrci_close_term(q4) ==
    LET close_wp == Num(Get(q4, "close_game_win_pct", 500))
    IN  IF RLt(close_wp, Dec(200, 1000)) THEN Whole(30)
        ELSE IF RLt(close_wp, Dec(350, 1000))
        THEN RAdd(Whole(15), RMul(RSub(Dec(350, 1000), close_wp), Whole(100)))
        ELSE IF RLt(close_wp, Dec(450, 1000))
        THEN RMul(RSub(Dec(450, 1000), close_wp), Whole(150))
        ELSE Whole(0)

_score_nrci(data) ==
    IF Truthy(data, "error") THEN 0
    ELSE
    LET rolling == Get(data, "rolling_net_rating", EmptyDict)
        decline == Num(Get(rolling, "max_decline", 0))
        s1 == IF RGe(decline, Whole(15)) THEN Whole(35)
              ELSE IF RGe(decline, Whole(10))
              THEN RAdd(Whole(20), RMul(RSub(decline, Whole(10)), Whole(3)))
              ELSE IF RGe(decline, Whole(5))
              THEN RAdd(Whole(5), RMul(RSub(decline, Whole(5)), Whole(3)))
              ELSE Whole(0)
        ppe == Get(data, "pre_post_elim", EmptyDict)
        nr_change == Num(Get(ppe, "net_rating_change", 0))
        s2 == IF RLt(nr_change, Whole(-8)) THEN Whole(35)
              ELSE IF RLt(nr_change, Whole(-5))
              THEN RAdd(Whole(20), RMul(RSub(RAbs(nr_change), Whole(5)), Whole(5)))
              ELSE IF RLt(nr_change, Whole(-3))
              THEN RAdd(Whole(10), RMul(RSub(RAbs(nr_change), Whole(3)), Whole(5)))
              ELSE IF RLt(nr_change, Whole(0))
              THEN RMul(RAbs(nr_change), Dec(33, 10))
              ELSE Whole(0)
        s3 == nrci_close_term(Get(data, "q4_performance", EmptyDict))
    IN  Capped(RAdd(RAdd(s1, s2), s3))

_score_ris(data) ==
    IF Truthy(data, "error") THEN 0
    ELSE
    LET changes == Get(data, "post_elim_changes", EmptyDict)
        sig_decreases == Num(Get(changes, "significant_decreases", 0))
        s1 == IF RGe(sig_decreases, Whole(5)) THEN Whole(35)
              ELSE IF RGe(sig_decreases, Whole(3))
              THEN RAdd(Whole(20), RMul(RSub(sig_decreases, Whole(3)), Dec(75, 10)))
              ELSE IF RGe(sig_decreases, Whole(1))
              THEN RMul(sig_decreases, Whole(10))
              ELSE Whole(0)
        new_players == Len(Get(changes, "new_rotation_players", <<>>))
        s2 == Whole(Min(new_players * 5, 20))
        corr == Get(data, "quality_correlation", EmptyDict)
        corr_shift == Num(Get(corr, "correlation_shift", 0))
        s3 == IF RLt(corr_shift, Dec(-30, 100)) THEN Whole(25)
              ELSE IF RLt(corr_shift, Dec(-15, 100))
              THEN RAdd(Whole(10),
                        RMul(RSub(RAbs(corr_shift), Dec(15, 100)), Whole(100)))
              ELSE IF RLt(corr_shift, Whole(0))
              THEN RMul(RAbs(corr_shift), Dec(667, 10))
              ELSE Whole(0)
        exp == Get(data, "experimentation", EmptyDict)
        exp_increase == Num(Get(exp, "experimentation_increase", 0))
        s4 == IF RGe(exp_increase, Whole(2)) THEN Whole(20)
              ELSE IF RGe(exp_increase, Whole(1))
              THEN RAdd(Whole(10), RMul(RSub(exp_increase, Whole(1)), Whole(10)))
              ELSE IF RGt(exp_increase, Whole(0))
              THEN RMul(exp_increase, Whole(10))
              ELSE Whole(0)
    IN  Capped(RAdd(RAdd(RAdd(s1, s2), s3), s4))

_score_btca(data) ==
    IF Truthy(data, "error") THEN 0
    ELSE
    LET lc == Get(data, "league_context", EmptyDict)
        deviation == RAbs(Num(Get(lc, "deviation_from_baseline", 0)))
        s1 == IF RGe(deviation, Whole(2)) THEN Whole(30)
              ELSE IF RGe(deviation, Whole(1))
              THEN RAdd(Whole(15), RMul(RSub(deviation, Whole(1)), Whole(15)))
              ELSE RMul(deviation, Whole(15))
        tp == Get(data, "temporal_pattern", EmptyDict)
        pct_of_pre == Num(Get(tp, "post_as_pct_of_pre", 100 * Milli))
        s2 == IF RLt(pct_of_pre, Whole(30)) THEN Whole(40)
              ELSE IF RLt(pct_of_pre, Whole(50))
              THEN RAdd(Whole(25), RMul(RSub(Whole(50), pct_of_pre), Dec(75, 100)))
              ELSE IF RLt(pct_of_pre, Whole(70))
              THEN RAdd(Whole(10), RMul(RSub(Whole(70), pct_of_pre), Dec(75, 100)))
              ELSE IF RLt(pct_of_pre, Whole(90))
              THEN RMul(RSub(Whole(90), pct_of_pre), Dec(5, 10))
              ELSE Whole(0)
        cc == Get(data, "calendar_correlation", EmptyDict)
        periods == Get(cc, "periods", EmptyDict)
        post_elim == Get(periods, "Post-elimination", EmptyDict)
        post_elim_wr == Num(Get(post_elim, "win_rate", 500))
        s3 == IF RLt(post_elim_wr, Dec(100, 1000)) THEN Whole(30)
              ELSE IF RLt(post_elim_wr, Dec(200, 1000))
              THEN RAdd(Whole(20), RMul(RSub(Dec(200, 1000), post_elim_wr), Whole(100)))
              ELSE IF RLt(post_elim_wr, Dec(300, 1000))
              THEN RAdd(Whole(10), RMul(RSub(Dec(300, 1000), post_elim_wr), Whole(100)))
              ELSE IF RLt(post_elim_wr, Dec(400, 1000))
              THEN RMul(RSub(Dec(400, 1000), post_elim_wr), Whole(100))
              ELSE Whole(0)
    IN  Capped(RAdd(RAdd(s1, s2), s3))

(***************************************************************************)
(* Dashboard threshold sliders (dashboard.py, sidebar), in thousandths     *)
(***************************************************************************)
Slider(lo, hi, default, step, c, term) ==
    [lo |-> lo, hi |-> hi, default |-> default, step |-> step,
     component |-> c, term |-> term]

\* st.sidebar.slider(label, min_value, max_value, value, step): the three
\* collapse sliders are declared with min_value above max_value; lo and hi
\* are the ends of the declared interval.  term names the block of the
\* scorer that reads the slider.
SLIDERS ==
    [sas_absence_low |-> Slider(50, 300, 100, 10, "SAS", "absence"),
     sas_absence_mid |-> Slider(150, 500, 250, 10, "SAS", "absence"),
     sas_absence_high |-> Slider(300, 800, 500, 10, "SAS", "absence"),
     sas_cluster_flag |-> Slider(1000, 5000, 2000, 250, "SAS", "cluster"),
     sas_skew_flag |-> Slider(1000, 4000, 1500, 250, "SAS", "skew"),
     nrci_decline_mid |-> Slider(3000, 15000, 5000, 500, "NRCI", "decline"),
     nrci_decline_high |-> Slider(8000, 25000, 10000, 500, "NRCI", "decline"),
     nrci_decline_max |-> Slider(10000, 30000, 15000, 500, "NRCI", "decline"),
     nrci_collapse_mild |-> Slider(-8000, -1000, -3000, 500, "NRCI", "collapse"),
     nrci_collapse_mod |-> Slider(-12000, -3000, -5000, 500, "NRCI", "collapse"),
     nrci_collapse_severe |-> Slider(-20000, -5000, -8000, 500, "NRCI", "collapse"),
     nrci_close_wp_suspicious |-> Slider(200, 550, 350, 10, "NRCI", "close"),
     ris_sig_decrease_mod |-> Slider(1000, 6000, 3000, 1000, "RIS", "rotation"),
     ris_sig_decrease_high |-> Slider(3000, 8000, 5000, 1000, "RIS", "rotation"),
     ris_corr_shift_flag |-> Slider(-500, 0, -150, 50, "RIS", "correlation"),
     ris_new_player_pts |-> Slider(1000, 10000, 5000, 1000, "RIS", "new_players"),
     btca_post_asb_flag |-> Slider(20000, 90000, 50000, 5000, "BTCA", "temporal"),
     btca_post_elim_wr |-> Slider(50, 500, 200, 10, "BTCA", "calendar")]

SliderNames == DOMAIN SLIDERS
DefaultThresholds == [n \in SliderNames |-> SLIDERS[n].default]

\* the slider positions sampled: both ends, the default, and every
\* SliderStride-th step in between
SliderStride == 16
SliderPositions(n) ==
    LET sl == SLIDERS[n]
        jump == sl.step * SliderStride
    IN  {sl.lo + k * jump : k \in 0..((sl.hi - sl.lo) \div jump)}
            \cup {sl.hi, sl.default}

\* the sliders read by one term of one scorer
SliderGroups(c) ==
    {{n \in SliderNames : SLIDERS[n].component = c /\ SLIDERS[n].term = term} :
     term \in {SLIDERS[n].term : n \in {m \in SliderNames : SLIDERS[m].component = c}}}

\* every setting of the sliders in S, the other sliders at their defaults
RECURSIVE SliderSettings(_)
SliderSettings(S) ==
    IF S = {} THEN {DefaultThresholds}
    ELSE LET n == CHOOSE m \in S : TRUE
         IN  {[t EXCEPT ![n] = v] :
              t \in SliderSettings(S \ {n}), v \in SliderPositions(n)}

\* the slider settings sampled for a component's scorer: the terms of a
\* scorer add up and each reads its own sliders only, so the sliders of one
\* term at a time take every combination of their positions
ThresholdChoices(c) == UNION {SliderSettings(g) : g \in SliderGroups(c)}

(***************************************************************************)
(* Dashboard scorers: dashboard.score_sas .. score_btca; t holds the       *)
(* slider values the module-level names are bound to                       *)
(***************************************************************************)
\* "if not data": None and the empty dict are falsy
Falsy(data) == DOMAIN data = {}

\* x / max(width, floor) * points
\* a ramp that falls from points to 0 over the width
Scaled_descending(x, width, floor, points) ==
    RMul(RDiv(RSub(width, x), RMax(width, floor)), Whole(points))

\* a ramp that multiplies by the width
Scaled_times(x, width, floor, points) ==
    RMul(RMul(x, RMax(width, floor)), Whole(points))

Scaled(x, width, floor, points) == RMul(RDiv(x, RMax(width, floor)), Whole(points))

score_sas(data, t) ==
    IF Falsy(data) THEN 0
    ELSE
    LET sas_absence_low == Num(t.sas_absence_low)
        sas_absence_mid == Num(t.sas_absence_mid)
        sas_absence_high == Num(t.sas_absence_high)
        sas_cluster_flag == Num(t.sas_cluster_flag)
        sas_skew_flag == Num(t.sas_skew_flag)
        summ == Get(data, "absence_summary", EmptyDict)
        ar == Num(Get(summ, "absence_rate", 0))
        s1 == IF RGt(ar, sas_absence_high)
              THEN RAdd(Whole(30),
                        RMin(RMul(RSub(ar, sas_absence_high), Whole(100)), Whole(10)))
              ELSE IF RGt(ar, sas_absence_mid)
              THEN RAdd(Whole(15),
                        Scaled(RSub(ar, sas_absence_mid),
                               RSub(sas_absence_high, sas_absence_mid),
                               Dec(1, 100), 15))
              ELSE IF RGt(ar, sas_absence_low)
              THEN Scaled(RSub(ar, sas_absence_low),
                          RSub(sas_absence_mid, sas_absence_low), Dec(1, 100), 15)
              ELSE Whole(0)
        clust == Get(data, "clustering", EmptyDict)
        ratio == Num(Get(clust, "cluster_ratio", 0))
        s2 == IF RGe(ratio, RMul(sas_cluster_flag, Dec(15, 10))) THEN Whole(30)
              ELSE IF RGe(ratio, sas_cluster_flag)
              THEN RAdd(Whole(20),
                        Scaled(RSub(ratio, sas_cluster_flag),
                               RMul(sas_cluster_flag, Dec(5, 10)), Dec(1, 100), 10))
              ELSE IF RGe(ratio, Whole(1))
              THEN Scaled(RSub(ratio, Whole(1)),
                          RSub(sas_cluster_flag, Whole(1)), Dec(1, 100), 20)
              ELSE Whole(0)
        dist == Get(data, "distribution", EmptyDict)
        lr == Num(Get(dist, "loss_absence_rate", 0))
        wr == Num(Get(dist, "win_absence_rate", 0))
        s3 == IF RGt(lr, Whole(0)) /\ RGt(wr, Whole(0))
              THEN LET skew == RDiv(lr, wr)
                   IN  IF RGe(skew, RMul(sas_skew_flag, Dec(133, 100))) THEN Whole(30)
                       ELSE IF RGe(skew, sas_skew_flag)
                       THEN RAdd(Whole(15),
                                 Scaled(RSub(skew, sas_skew_flag),
                                        RMul(sas_skew_flag, Dec(33, 100)),
                                        Dec(1, 100), 15))
                       ELSE IF RGe(skew, Whole(1))
                       THEN Scaled(RSub(skew, Whole(1)),
                                   RSub(sas_skew_flag, Whole(1)), Dec(1, 100), 15)
                       ELSE Whole(0)
              ELSE Whole(0)
    IN  Capped(RAdd(RAdd(s1, s2), s3))

score_nrci(data, t) ==
    IF Falsy(data) \/ Truthy(data, "error") THEN 0
    ELSE
    LET nrci_decline_mid == Num(t.nrci_decline_mid)
        nrci_decline_high == Num(t.nrci_decline_high)
        nrci_decline_max == Num(t.nrci_decline_max)
        nrci_collapse_mild == Num(t.nrci_collapse_mild)
        nrci_collapse_mod == Num(t.nrci_collapse_mod)
        nrci_collapse_severe == Num(t.nrci_collapse_severe)
        nrci_close_wp_suspicious == Num(t.nrci_close_wp_suspicious)
        rolling == Get(data, "rolling_net_rating", EmptyDict)
        decline == Num(Get(rolling, "max_decline", 0))
        s1 == IF RGe(decline, nrci_decline_max) THEN Whole(35)
              ELSE IF RGe(decline, nrci_decline_high)
              THEN RAdd(Whole(20),
                        Scaled(RSub(decline, nrci_decline_high),
                               RSub(nrci_decline_max, nrci_decline_high),
                               Dec(1, 100), 15))
              ELSE IF RGe(decline, nrci_decline_mid)
              THEN RAdd(Whole(5),
                        Scaled(RSub(decline, nrci_decline_mid),
                               RSub(nrci_decline_high, nrci_decline_mid),
                               Dec(1, 100), 15))
              ELSE Whole(0)
        ppe == Get(data, "pre_post_elim", EmptyDict)
        nr_change == Num(Get(ppe, "net_rating_change", 0))
        s2 == IF RLt(nr_change, nrci_collapse_severe) THEN Whole(35)
              ELSE IF RLt(nr_change, nrci_collapse_mod)
              THEN RAdd(Whole(20),
                        Scaled(RSub(RAbs(nr_change), RAbs(nrci_collapse_mod)),
                               RSub(RAbs(nrci_collapse_severe), RAbs(nrci_collapse_mod)),
                               Dec(1, 100), 15))
              ELSE IF RLt(nr_change, nrci_collapse_mild)
              THEN RAdd(Whole(10),
                        Scaled(RSub(RAbs(nr_change), RAbs(nrci_collapse_mild)),
                               RSub(RAbs(nrci_collapse_mod), RAbs(nrci_collapse_mild)),
                               Dec(1, 100), 10))
              ELSE IF RLt(nr_change, Whole(0))
              THEN Scaled(RAbs(nr_change), RAbs(nrci_collapse_mild), Dec(1, 100), 10)
              ELSE Whole(0)
        q4 == Get(data, "q4_performance", EmptyDict)
        close_wp == Num(Get(q4, "close_game_win_pct", 500))
        s3 == IF RLt(close_wp, RSub(nrci_close_wp_suspicious, Dec(15, 100)))
              THEN Whole(30)
              ELSE IF RLt(close_wp, nrci_close_wp_suspicious)
              THEN RAdd(Whole(15),
                        RMul(RDiv(RSub(nrci_close_wp_suspicious, close_wp),
                                  Dec(15, 100)), Whole(15)))
              ELSE IF RLt(close_wp, RAdd(nrci_close_wp_suspicious, Dec(10, 100)))
              THEN RMul(RDiv(RSub(RAdd(nrci_close_wp_suspicious, Dec(10, 100)),
                                  close_wp), Dec(10, 100)), Whole(15))
              ELSE Whole(0)
    IN  Capped(RAdd(RAdd(s1, s2), s3))

score_ris(data, t) ==
    IF Falsy(data) \/ Truthy(data, "error") THEN 0
    ELSE
    LET ris_sig_decrease_mod == Num(t.ris_sig_decrease_mod)
        ris_sig_decrease_high == Num(t.ris_sig_decrease_high)
        ris_corr_shift_flag == Num(t.ris_corr_shift_flag)
        ris_new_player_pts == Num(t.ris_new_player_pts)
        changes == Get(data, "post_elim_changes", EmptyDict)
        sd == Num(Get(changes, "significant_decreases", 0))
        s1 == IF RGe(sd, ris_sig_decrease_high) THEN Whole(35)
              ELSE IF RGe(sd, ris_sig_decrease_mod)
              THEN RAdd(Whole(20),
                        Scaled(RSub(sd, ris_sig_decrease_mod),
                               RSub(ris_sig_decrease_high, ris_sig_decrease_mod),
                               Whole(1), 15))
              ELSE IF RGe(sd, Whole(1))
              THEN Scaled(sd, ris_sig_decrease_mod, Whole(1), 20)
              ELSE Whole(0)
        new_players == Len(Get(changes, "new_rotation_players", <<>>))
        s2 == RMin(RMul(Whole(new_players), ris_new_player_pts), Whole(20))
        corr == Get(data, "quality_correlation", EmptyDict)
        cs == Num(Get(corr, "correlation_shift", 0))
        s3 == IF RLt(cs, RMul(ris_corr_shift_flag, Whole(2))) THEN Whole(25)
              ELSE IF RLt(cs, ris_corr_shift_flag)
              THEN RAdd(Whole(10),
                        Scaled(RSub(RAbs(cs), RAbs(ris_corr_shift_flag)),
                               RAbs(ris_corr_shift_flag), Dec(1, 100), 15))
              ELSE IF RLt(cs, Whole(0))
              THEN Scaled(RAbs(cs), RAbs(ris_corr_shift_flag), Dec(1, 100), 10)
              ELSE Whole(0)
        exp == Get(data, "experimentation", EmptyDict)
        ei == Num(Get(exp, "experimentation_increase", 0))
        s4 == IF RGe(ei, Whole(2)) THEN Whole(20)
              ELSE IF RGe(ei, Whole(1))
              THEN RAdd(Whole(10), RMul(RSub(ei, Whole(1)), Whole(10)))
              ELSE IF RGt(ei, Whole(0))
              THEN RMul(ei, Whole(10))
              ELSE Whole(0)
    IN  Capped(RAdd(RAdd(RAdd(s1, s2), s3), s4))

score_btca(data, t) ==
    IF Falsy(data) \/ Truthy(data, "error") THEN 0
    ELSE
    LET btca_post_asb_flag == Num(t.btca_post_asb_flag)
        btca_post_elim_wr == Num(t.btca_post_elim_wr)
        lc == Get(data, "league_context", EmptyDict)
        deviation == RAbs(Num(Get(lc, "deviation_from_baseline", 0)))
        s1 == IF RGe(deviation, Whole(2)) THEN Whole(30)
              ELSE IF RGe(deviation, Whole(1))
              THEN RAdd(Whole(15), RMul(RSub(deviation, Whole(1)), Whole(15)))
              ELSE RMul(deviation, Whole(15))
        tp == Get(data, "temporal_pattern", EmptyDict)
        pct == Num(Get(tp, "post_as_pct_of_pre", 100 * Milli))
        s2 == IF RLt(pct, RMul(btca_post_asb_flag, Dec(6, 10))) THEN Whole(40)
              ELSE IF RLt(pct, btca_post_asb_flag)
              THEN RAdd(Whole(25),
                        Scaled(RSub(btca_post_asb_flag, pct),
                               RMul(btca_post_asb_flag, Dec(4, 10)), Whole(1), 15))
              ELSE IF RLt(pct, RMul(btca_post_asb_flag, Dec(14, 10)))
              THEN Scaled(RSub(RMul(btca_post_asb_flag, Dec(14, 10)), pct),
                          RMul(btca_post_asb_flag, Dec(4, 10)), Whole(1), 25)
              ELSE Whole(0)
        cc == Get(data, "calendar_correlation", EmptyDict)
        periods == Get(cc, "periods", EmptyDict)
        post == Get(periods, "Post-elimination", EmptyDict)
        pewr == Num(Get(post, "win_rate", 500))
        s3 == IF RLt(pewr, RMul(btca_post_elim_wr, Dec(5, 10))) THEN Whole(30)
              ELSE IF RLt(pewr, btca_post_elim_wr)
              THEN RAdd(Whole(15),
                        Scaled(RSub(btca_post_elim_wr, pewr),
                               RMul(btca_post_elim_wr, Dec(5, 10)), Dec(1, 100), 15))
              ELSE IF RLt(pewr, RAdd(btca_post_elim_wr, Dec(10, 100)))
              THEN RMul(RDiv(RSub(RAdd(btca_post_elim_wr, Dec(10, 100)), pewr),
                             Dec(10, 100)), Whole(15))
              ELSE Whole(0)
    IN  Capped(RAdd(RAdd(s1, s2), s3))

(***************************************************************************)
(* Component bundles, as compute_sas .. compute_btca build them            *)
(***************************************************************************)
\* the result template with the error marker set: what a compute_* function
\* returns when a raw table is missing
ErrorBundle(c) ==
    CASE c = "SAS" ->
           [qualified_players |-> <<>>, absence_summary |-> EmptyDict,
            clustering |-> EmptyDict, distribution |-> EmptyDict,
            error |-> "No player/game log data"]
      [] c = "NRCI" ->
           [rolling_net_rating |-> EmptyDict, q4_performance |-> EmptyDict,
            pre_post_elim |-> EmptyDict, opponent_adjusted |-> EmptyDict,
            error |-> "No box score data"]
      [] c = "RIS" ->
           [baseline_rotation |-> EmptyDict, post_elim_changes |-> EmptyDict,
            quality_correlation |-> EmptyDict, experimentation |-> EmptyDict,
            error |-> "No elimination date"]
      [] c = "BTCA" ->
           [league_context |-> EmptyDict, temporal_pattern |-> EmptyDict,
            calendar_correlation |-> EmptyDict,
            error |-> "No standings data"]

\* sampled metric values, in thousandths
AbsenceRates == {0, 200, 400, 1000}
ClusterRatios == {0, 1200, 2500, 8000}
OutcomeAbsenceRates == {0, 200, 500}
MaxDeclines == {0, 9000, 40000}
NetRatingChanges == {-25000, -6000, -2000}
WinRates == {0, 250, 300, 1000}
SigDecreases == {0, 2000, 4000, 9000}
NewRotationPlayers == {<<>>, <<"p1">>, <<"p1", "p2", "p3", "p4", "p5">>}
CorrelationShifts == {-400, -100, 200}
ExperimentationIncreases == {0, 1500, 3000}
Deviations == {-3000, 0, 1500}
PostAsbPercents == {10000, 60000, 100000}

\* a sub-dict that holds one metric, or lacks it
Maybe(key, values) == {EmptyDict} \cup {[k \in {key} |-> v] : v \in values}

SasBundles ==
    {[qualified_players |-> <<"p1">>,
      absence_summary |-> [absence_rate |-> a],
      clustering |-> cl,
      distribution |-> [loss_absence_rate |-> l, win_absence_rate |-> w]] :
     a \in AbsenceRates, cl \in Maybe("cluster_ratio", ClusterRatios),
     l \in OutcomeAbsenceRates, w \in OutcomeAbsenceRates}

NrciBundles ==
    {[rolling_net_rating |-> [max_decline |-> d],
      q4_performance |-> q4,
      pre_post_elim |-> ppe,
      opponent_adjusted |-> EmptyDict] :
     d \in MaxDeclines, q4 \in Maybe("close_game_win_pct", WinRates \ {250}),
     ppe \in Maybe("net_rating_change", NetRatingChanges)}

RisBundles ==
    {[baseline_rotation |-> EmptyDict,
      post_elim_changes |-> [significant_decreases |-> sd,
                             new_rotation_players |-> np],
      quality_correlation |-> [correlation_shift |-> cs],
      experimentation |-> [experimentation_increase |-> ei]] :
     sd \in SigDecreases, np \in NewRotationPlayers,
     cs \in CorrelationShifts, ei \in ExperimentationIncreases}

BtcaBundles ==
    {[league_context |-> [deviation_from_baseline |-> dv],
      temporal_pattern |-> tp,
      calendar_correlation |->
         [periods |-> IF DOMAIN pe = {} THEN EmptyDict
                      ELSE [p \in {"Post-elimination"} |-> pe]]] :
     dv \in Deviations, tp \in Maybe("post_as_pct_of_pre", PostAsbPercents),
     pe \in Maybe("win_rate", WinRates)}

MetricBundles(c) ==
    CASE c = "SAS" -> SasBundles
      [] c = "NRCI" -> NrciBundles
      [] c = "RIS" -> RisBundles
      [] c = "BTCA" -> BtcaBundles

\* what the cache or an export can hold for a component: nothing, an empty
\* dict, an error bundle, or a bundle of metrics
BundlesOf(c) ==
    {Nothing, Some(EmptyDict), Some(ErrorBundle(c))}
        \cup {Some(d) : d \in MetricBundles(c)}

(***************************************************************************)
(* Scoring one bundle: the batch path (compute_composite) and the          *)
(* dashboard path (load_all_case_data, then the scoreboard loop)           *)
(***************************************************************************)
batch_scorer(c, data) ==
    CASE c = "SAS" -> _score_sas(data)
      [] c = "NRCI" -> _score_nrci(data)
      [] c = "RIS" -> _score_ris(data)
      [] c = "BTCA" -> _score_btca(data)

\* components[c] = _score_c(loaded["data"]) if loaded else 0.0
batch_component_score(c, loaded) ==
    IF loaded = Nothing THEN 0 ELSE batch_scorer(c, The(loaded))

dash_scorer(c, data, t) ==
    CASE c = "SAS" -> score_sas(data, t)
      [] c = "NRCI" -> score_nrci(data, t)
      [] c = "RIS" -> score_ris(data, t)
      [] c = "BTCA" -> score_btca(data, t)

\* row[metric] = stored["data"] if stored else {}; score_c(d[metric])
dash_component_score(c, loaded, t) ==
    dash_scorer(c, IF loaded = Nothing THEN EmptyDict ELSE The(loaded), t)

ScoreIdle ==
    /\ scored_component = "SAS"
    /\ bundle = Nothing
    /\ thresholds = DefaultThresholds
    /\ batch_score = Nothing
    /\ dash_score = Nothing

\* a bundle of any component and any setting of that component's sliders
ScoreInit ==
    /\ scored_component \in Components
    /\ bundle \in BundlesOf(scored_component)
    /\ thresholds \in ThresholdChoices(scored_component)
    /\ batch_score = Nothing
    /\ dash_score = Nothing

BatchScore ==
    /\ batch_score' = Some(batch_component_score(scored_component, bundle))
    /\ UNCHANGED <<scored_component, bundle, thresholds, dash_score>>
    /\ ScoreFrame

DashboardScore ==
    /\ dash_score' =
          Some(dash_component_score(scored_component, bundle, thresholds))
    /\ UNCHANGED <<scored_component, bundle, thresholds, batch_score>>
    /\ ScoreFrame

ScoreNext == BatchScore \/ DashboardScore

(***************************************************************************)
(* The cache of computed metrics: cache.store_computed / load_computed     *)
(***************************************************************************)
CacheKeys == Components \cup {"elimination", "supplemental", "composite"}

\* Python containers that JSON does not keep apart: a tuple and a list
PyTuple(items) == [tuple |-> items]
PyList(items) == [list |-> items]
JsonArray(items) == [array |-> items]

\* the fields of a bundle that hold a list of tuples (btca.py:43, :68)
TupleListFields == {"bottom_6_teams"}

\* json.dumps: a tuple and a list both become an array; dicts, numbers,
\* strings, booleans and None keep their value
DumpTuples(seq) ==
    JsonArray([i \in 1..Len(seq) |-> JsonArray(seq[i].tuple)])

DumpDict(d) ==
    [f \in DOMAIN d |-> IF f \in TupleListFields THEN DumpTuples(d[f]) ELSE d[f]]

json_dumps(data) ==
    [k \in DOMAIN data |->
        IF k = "league_context" THEN DumpDict(data[k]) ELSE data[k]]

\* json.loads: an array becomes a list
LoadArrays(arr) ==
    [i \in 1..Len(arr.array) |-> PyList(arr.array[i].array)]

LoadDict(d) ==
    [f \in DOMAIN d |-> IF f \in TupleListFields THEN LoadArrays(d[f]) ELSE d[f]]

json_loads(text) ==
    [k \in DOMAIN text |->
        IF k = "league_context" THEN LoadDict(text[k]) ELSE text[k]]

\* INSERT OR REPLACE INTO computed_metrics ... json.dumps(data), score
store_computed(rows, component, data, score_opt) ==
    [rows EXCEPT ![component] =
        Some([data_json |-> json_dumps(data), score |-> score_opt])]

\* SELECT data_json, score ...; None if there is no row
load_computed(rows, component) ==
    IF rows[component] = Nothing THEN Nothing
    ELSE LET row == The(rows[component])
         IN  Some([data |-> json_loads(row.data_json), score |-> row.score])

\* elim_data["data"].get(key) if elim_data else None
CachedElimination(rows, key) ==
    LET elim_data == load_computed(rows, "elimination")
    IN  IF elim_data = Nothing THEN Nothing ELSE The(elim_data).data[key]

(***************************************************************************)
(* Component computations over the raw tables.  A non-empty player or box  *)
(* table is kept as one row holding the metrics its rows aggregate to.     *)
(***************************************************************************)
\* games after the elimination game: game_logs.iloc[elim_game_num:]
PostElimGames(gl, elim_game) == {i \in 1..Len(gl) : i > The(elim_game)}

compute_sas(pgl, tgl, rows) ==
    IF pgl = EmptyTable \/ tgl = EmptyTable THEN ErrorBundle("SAS")
    ELSE LET elim_date == CachedElimination(rows, "elimination_date")
             elim_game_num == CachedElimination(rows, "elimination_game_number")
         IN  [qualified_players |-> pgl[1].qualified_players,
              absence_summary |-> [absence_rate |-> pgl[1].absence_rate],
              clustering |->
                  IF /\ elim_date # Nothing /\ elim_game_num # Nothing
                     /\ pgl[1].qualified_players # <<>>
                  THEN [cluster_ratio |-> pgl[1].cluster_ratio]
                  ELSE [note |-> "No elimination date - clustering N/A"],
              distribution |->
                  IF pgl[1].qualified_players # <<>>
                  THEN [loss_absence_rate |-> pgl[1].loss_absence_rate,
                        win_absence_rate |-> pgl[1].win_absence_rate]
                  ELSE EmptyDict]

\* compute_nrci that leaves pre_post_elim empty when there is no elimination
compute_nrci_no_note(box, gl, rows) ==
    IF box = EmptyTable \/ gl = EmptyTable THEN ErrorBundle("NRCI")
    ELSE LET elim_date == CachedElimination(rows, "elimination_date")
             elim_game_num == CachedElimination(rows, "elimination_game_number")
         IN  [rolling_net_rating |-> [max_decline |-> box[1].max_decline],
              q4_performance |-> [close_game_win_pct |-> box[1].close_game_win_pct],
              pre_post_elim |->
                  IF /\ elim_date # Nothing /\ elim_game_num # Nothing
                     /\ PostElimGames(gl, elim_game_num) # {}
                  THEN [net_rating_change |-> box[1].net_rating_change]
                  ELSE EmptyDict,
              opponent_adjusted |-> EmptyDict]

compute_nrci(box, gl, rows) ==
    IF box = EmptyTable \/ gl = EmptyTable THEN ErrorBundle("NRCI")
    ELSE LET elim_date == CachedElimination(rows, "elimination_date")
             elim_game_num == CachedElimination(rows, "elimination_game_number")
         IN  [rolling_net_rating |-> [max_decline |-> box[1].max_decline],
              q4_performance |-> [close_game_win_pct |-> box[1].close_game_win_pct],
              pre_post_elim |->
                  IF elim_date # Nothing /\ elim_game_num # Nothing
                  THEN IF PostElimGames(gl, elim_game_num) # {}
                       THEN [net_rating_change |-> box[1].net_rating_change]
                       ELSE EmptyDict
                  ELSE [note |-> "No elimination date - split N/A"],
              opponent_adjusted |-> EmptyDict]

compute_ris(pbox, gl, rows) ==
    LET elim_date == CachedElimination(rows, "elimination_date")
        elim_game_num == CachedElimination(rows, "elimination_game_number")
    IN  IF pbox = EmptyTable \/ gl = EmptyTable THEN ErrorBundle("RIS")
        ELSE IF elim_date = Nothing \/ elim_game_num = Nothing
        THEN ErrorBundle("RIS")
        ELSE IF PostElimGames(gl, elim_game_num) = {}
        THEN [baseline_rotation |-> [pre_elim_games |-> The(elim_game_num)],
              post_elim_changes |-> EmptyDict,
              quality_correlation |-> EmptyDict,
              experimentation |-> EmptyDict]
        ELSE [baseline_rotation |-> [pre_elim_games |-> The(elim_game_num)],
              post_elim_changes |->
                  [significant_decreases |-> pbox[1].significant_decreases,
                   new_rotation_players |-> pbox[1].new_rotation_players],
              quality_correlation |->
                  [correlation_shift |-> pbox[1].correlation_shift],
              experimentation |->
                  [experimentation_increase |-> pbox[1].experimentation_increase]]

\* standings.nsmallest(6, "wins"): the teams by wins, lowest first, at most
\* six of them, a tie kept in table order
RECURSIVE SortTeamsAsc(_, _)
SortTeamsAsc(ts, st) ==
    IF ts = {} THEN <<>>
    ELSE LET t == CHOOSE t \in ts :
                    \A u \in ts : st[t] < st[u] \/ (st[t] = st[u] /\ t <= u)
         IN  <<t>> \o SortTeamsAsc(ts \ {t}, st)

BottomSix == 6
bottom_6_teams(st) ==
    LET order == SortTeamsAsc(DOMAIN st, st)
        bottom_6 == SubSeq(order, 1, Min(BottomSix, Len(order)))
    IN  [i \in 1..Len(bottom_6) |-> PyTuple(<<bottom_6[i], st[bottom_6[i]]>>)]

\* periods["Post-elimination"]: the games dated on or after the elimination
\* date, win_rate = round(w / total, 3)
post_elimination_period(gl, elim_date) ==
    LET post_elim == {i \in 1..Len(gl) : gl[i].game_date >= The(elim_date)}
        w == Cardinality({i \in post_elim : gl[i].wl = "W"})
        total == Cardinality(post_elim)
    IN  IF post_elim = {} THEN EmptyDict
        ELSE [p \in {"Post-elimination"} |->
                 [win_rate |-> RoundTo(Milli * w, total), games |-> total]]

\* compute_btca with a field taken from the composite row an earlier run left
compute_btca_reads_composite(st, gl, rows) ==
    IF st = EmptyTable THEN ErrorBundle("BTCA")
    ELSE LET elim_date == CachedElimination(rows, "elimination_date")
         IN  [league_context |->
                  [team_wins |-> st[CaseTeam],
                   bottom_6_teams |-> bottom_6_teams(st),
                   deviation_from_baseline |->
                       IF load_computed(rows, "composite") = Nothing THEN 0 ELSE Milli],
              temporal_pattern |-> [error |-> "Pre/post ASB splits not available"],
              calendar_correlation |->
                  IF gl = EmptyTable THEN EmptyDict
                  ELSE [periods |-> IF elim_date = Nothing THEN EmptyDict
                                    ELSE post_elimination_period(gl, elim_date),
                        elimination_date |-> elim_date]]

\* no baseline season and no team_splits row is in the cache of this model:
\* deviation is 0 and temporal_pattern holds its nested error note
compute_btca(st, gl, rows) ==
    IF st = EmptyTable THEN ErrorBundle("BTCA")
    ELSE LET elim_date == CachedElimination(rows, "elimination_date")
         IN  [league_context |->
                  [team_wins |-> st[CaseTeam],
                   bottom_6_teams |-> bottom_6_teams(st),
                   deviation_from_baseline |-> 0],
              temporal_pattern |-> [error |-> "Pre/post ASB splits not available"],
              calendar_correlation |->
                  IF gl = EmptyTable THEN EmptyDict
                  ELSE [periods |-> IF elim_date = Nothing THEN EmptyDict
                                    ELSE post_elimination_period(gl, elim_date),
                        elimination_date |-> elim_date]]

\* compute_supplemental: five indicators, each a dict or its own error note;
\* the draft-pick indicator stands for them
compute_supplemental(st) ==
    [draft_pick_incentive |->
        IF st = EmptyTable THEN [error |-> "No standings data"]
        ELSE [team_wins |-> st[CaseTeam]]]

\* strings as sequences of characters, for Python's substring test
LabelText ==
    [Green |-> <<"G", "r", "e", "e", "n">>,
     Yellow |-> <<"Y", "e", "l", "l", "o", "w">>,
     Orange |-> <<"O", "r", "a", "n", "g", "e">>,
     Red |-> <<"R", "e", "d">>]

\* b.startswith(a)
IsSubstring_at_start(a, b) == Len(a) <= Len(b) /\ SubSeq(b, 1, Len(a)) = a

\* a in b, for strings
IsSubstring(a, b) ==
    \E i \in 1..(Len(b) - Len(a) + 1) : SubSeq(b, i, i + Len(a) - 1) = a

\* case["expected_classification"] of the case the pipeline runs: "Orange/Red"
expected_classification == LabelText.Orange \o <<"/">> \o LabelText.Red

\* compute_composite after its four load_computed calls: data[c] is
\* the loaded row's "data" if the row exists
composite_result(data) ==
    LET components == [c \in Components |-> batch_component_score(c, data[c])]
        sums == batch_composite(components)
        classification == classify_tii(sums.composite_score)
    IN  [raw_scores |-> components,
         weighted_scores |-> sums.weighted_scores,
         composite_score |-> sums.composite_score,
         classification |-> classification,
         expected_classification |-> expected_classification,
         match |-> IsSubstring(LabelText[classification], expected_classification)]

\* sas_data = cache.load_computed(case_id, "SAS") ... btca_data = ...
loaded_data(rows, c) ==
    LET row == load_computed(rows, c)
    IN  IF row = Nothing THEN Nothing ELSE Some(The(row).data)

\* compute_composite: the returned (and stored) result
compute_composite(rows) ==
    composite_result([c \in Components |-> loaded_data(rows, c)])

(***************************************************************************)
(* The pipeline: ingest steps (tii ingest) and run_case (tii compute)      *)
(***************************************************************************)
MaxRuns == 3
MaxIngests == 1

\* sampled contents of the raw tables of the pipeline's case
PipeGameLogs ==
    {GameRows(wl) : wl \in {<<>>, <<"L", "L", "W">>, <<"L", "L", "W", "W", "W">>}}
PipeStandings ==
    {EmptyTable,
     [t \in Teams |-> IF t = CaseTeam THEN 1 ELSE 3],
     [t \in Teams |-> IF t = CaseTeam THEN 3 ELSE 1]}
PlayerLogTables ==
    {EmptyTable,
     <<[qualified_players |-> <<>>, absence_rate |-> 0, cluster_ratio |-> 0,
        loss_absence_rate |-> 0, win_absence_rate |-> 0]>>,
     <<[qualified_players |-> <<"p1">>, absence_rate |-> 400, cluster_ratio |-> 2500,
        loss_absence_rate |-> 500, win_absence_rate |-> 200]>>}
BoxScoreTables ==
    {EmptyTable,
     <<[max_decline |-> 9000, close_game_win_pct |-> 300,
        net_rating_change |-> -6000]>>}
PlayerBoxTables ==
    {EmptyTable,
     <<[significant_decreases |-> 4000, new_rotation_players |-> <<"p9">>,
        correlation_shift |-> -400, experimentation_increase |-> 1500]>>}

IsPrefix(a, b) == Len(a) <= Len(b) /\ SubSeq(b, 1, Len(a)) = a

PipeIdle ==
    /\ player_game_logs = EmptyTable
    /\ box_scores = EmptyTable
    /\ player_box = EmptyTable
    /\ cache = [k \in CacheKeys |-> Nothing]
    /\ pc = "idle"
    /\ run_bundles = [c \in Components |-> Nothing]
    /\ run_result = Nothing
    /\ last_store = Nothing
    /\ ever_stored = {}
    /\ runs = 0
    /\ ingests = 0
    /\ snapshot = Nothing
    /\ tables_changed = FALSE

\* a fresh cache of computed metrics over raw tables some ingest left
PipeInit ==
    /\ game_logs \in PipeGameLogs
    /\ standings \in PipeStandings
    /\ cutoff_seed \in 1..MaxSeed
    /\ elim_result = None
    /\ player_game_logs \in PlayerLogTables
    /\ box_scores \in BoxScoreTables
    /\ player_box \in PlayerBoxTables
    /\ cache = [k \in CacheKeys |-> Nothing]
    /\ pc = "idle"
    /\ run_bundles = [c \in Components |-> Nothing]
    /\ run_result = Nothing
    /\ last_store = Nothing
    /\ ever_stored = {}
    /\ runs = 0
    /\ ingests = 0
    /\ snapshot = Nothing
    /\ tables_changed = FALSE

\* cache.store_computed(case_id, team_id, season, component, data, score)
Store(component, data, score_opt) ==
    /\ cache' = store_computed(cache, component, data, score_opt)
    /\ last_store' = Some([component |-> component, data |-> data,
                           score |-> score_opt])
    /\ ever_stored' = ever_stored \cup {component}

NoStore == UNCHANGED <<cache, last_store, ever_stored>>

\* an ingest step: upsert_df replaces rows by primary key, it deletes none
IngestStep ==
    /\ pc = "idle"
    /\ ingests < MaxIngests
    /\ ingests' = ingests + 1
    /\ tables_changed' = TRUE
    /\ UNCHANGED <<cutoff_seed, elim_result, cache, pc, run_bundles, run_result,
                   last_store, ever_stored, runs, snapshot>>
    /\ PipeFrame

IngestGameLogs(gl) ==
    /\ gl # EmptyTable
    /\ gl # game_logs
    /\ IsPrefix(game_logs, gl)
    /\ game_logs' = gl
    /\ UNCHANGED <<standings, player_game_logs, box_scores, player_box>>
    /\ IngestStep

IngestStandings(st) ==
    /\ st # EmptyTable
    /\ st # standings
    /\ standings' = st
    /\ UNCHANGED <<game_logs, player_game_logs, box_scores, player_box>>
    /\ IngestStep

IngestPlayerLogs(t) ==
    /\ t # EmptyTable
    /\ t # player_game_logs
    /\ player_game_logs' = t
    /\ UNCHANGED <<game_logs, standings, box_scores, player_box>>
    /\ IngestStep

IngestBoxScores(t, u) ==
    /\ t # EmptyTable
    /\ u # EmptyTable
    /\ <<t, u>> # <<box_scores, player_box>>
    /\ box_scores' = t
    /\ player_box' = u
    /\ UNCHANGED <<game_logs, standings, player_game_logs>>
    /\ IngestStep

\* what a step of run_case leaves alone
RunStepFrame ==
    /\ UNCHANGED <<game_logs, standings, cutoff_seed, player_game_logs,
                   box_scores, player_box, ingests>>
    /\ PipeFrame

\* a component step: the bundle compute_* returns is stored unless it
\* carries the error marker
ComponentStep(c, result, next) ==
    /\ pc = c
    /\ run_bundles' = [run_bundles EXCEPT ![c] = Some(result)]
    /\ IF Truthy(result, "error") THEN NoStore ELSE Store(c, result, Nothing)
    /\ pc' = next
    /\ UNCHANGED <<elim_result, run_result, runs, snapshot, tables_changed>>
    /\ RunStepFrame

\* run_case, step 1: elim = compute_elimination_date(cid)
RunElimination ==
    /\ pc = "idle"
    /\ runs < MaxRuns
    /\ runs' = runs + 1
    /\ LET result == compute_elimination_date(game_logs, standings, cutoff_seed)
       IN  /\ elim_result' = result
           /\ IF IsError(result) THEN NoStore
              ELSE Store("elimination", result, Nothing)
    /\ run_bundles' = [c \in Components |-> Nothing]
    /\ run_result' = Nothing
    /\ pc' = "SAS"
    /\ UNCHANGED <<snapshot, tables_changed>>
    /\ RunStepFrame

\* a run_case that goes from SAS straight to the composite
RunSAS_then_composite ==
    ComponentStep("SAS", compute_sas(player_game_logs, game_logs, cache), "composite")

\* steps 2 to 5: sas, nrci, ris, btca
RunSAS == ComponentStep("SAS", compute_sas(player_game_logs, game_logs, cache), "NRCI")
RunNRCI == ComponentStep("NRCI", compute_nrci(box_scores, game_logs, cache), "RIS")
RunRIS == ComponentStep("RIS", compute_ris(player_box, game_logs, cache), "BTCA")
RunBTCA == ComponentStep("BTCA", compute_btca(standings, game_logs, cache), "supplemental")

\* step 6: supp = compute_supplemental(cid)
RunSupplemental ==
    /\ pc = "supplemental"
    /\ Store("supplemental", compute_supplemental(standings), Nothing)
    /\ pc' = "composite"
    /\ UNCHANGED <<elim_result, run_bundles, run_result, runs, snapshot,
                   tables_changed>>
    /\ RunStepFrame

\* step 7: comp = compute_composite(cid)
RunComposite ==
    /\ pc = "composite"
    /\ LET result == compute_composite(cache)
       IN  /\ run_result' = Some(result)
           /\ Store("composite", result, Some(result.composite_score))
    /\ pc' = "idle"
    /\ snapshot' = IF snapshot = Nothing \/ tables_changed THEN Some(cache')
                   ELSE snapshot
    /\ tables_changed' = FALSE
    /\ UNCHANGED <<elim_result, run_bundles, runs>>
    /\ RunStepFrame

PipeNext ==
    \/ \E gl \in PipeGameLogs : IngestGameLogs(gl)
    \/ \E st \in PipeStandings : IngestStandings(st)
    \/ \E t \in PlayerLogTables : IngestPlayerLogs(t)
    \/ \E t \in BoxScoreTables : \E u \in PlayerBoxTables : IngestBoxScores(t, u)
    \/ RunElimination
    \/ RunSAS
    \/ RunNRCI
    \/ RunRIS
    \/ RunBTCA
    \/ RunSupplemental
    \/ RunComposite

(***************************************************************************)
(* The computed_metrics table under concurrent callers.  Every call of     *)
(* store_computed opens its own connection, executes one INSERT OR REPLACE *)
(* in an implicit transaction, commits and closes; load_computed reads the *)
(* committed rows.  The computed_at column is left out.                    *)
(***************************************************************************)
CaseIds == {"A", "B"}
DbKeys == {<<"A", "SAS">>, <<"A", "composite">>, <<"B", "composite">>}
Writers == {"w1", "w2"}

\* sampled (data, score) arguments of store_computed
Payloads ==
    {[data |-> [composite_score |-> 0, classification |-> "Green"],
      score |-> Some(0)],
     [data |-> [composite_score |-> 665, classification |-> "Orange"],
      score |-> Nothing]}

NoRequest == [key |-> <<"A", "SAS">>, payload |-> CHOOSE p \in Payloads : TRUE]

\* the VALUES (...) of the INSERT
computed_row(key, payload) ==
    [case_id |-> key[1], component |-> key[2],
     data_json |-> json_dumps(payload.data), score |-> payload.score]

\* a plain INSERT that keeps the row already there
insert_keep(table, row) == table \cup {row}

\* INSERT OR REPLACE under PRIMARY KEY (case_id, component): the row that
\* conflicts on the key is deleted, then the new row is inserted
insert_or_replace(table, row) ==
    {r \in table : <<r.case_id, r.component>> # <<row.case_id, row.component>>}
        \cup {row}

\* SELECT data_json, score ... WHERE case_id = ? AND component = ?; fetchone()
fetchone(table, key) ==
    LET found == {r \in table : <<r.case_id, r.component>> = key}
    IN  IF found = {} THEN Nothing ELSE Some(CHOOSE r \in found : TRUE)

\* load_computed on the table: None, or {"data": json.loads(row[0]), "score": row[1]}
load_row(table, key) ==
    LET row == fetchone(table, key)
    IN  IF row = Nothing THEN Nothing
        ELSE Some([data |-> json_loads(The(row).data_json),
                   score |-> The(row).score])

DbIdle ==
    /\ db = {}
    /\ wpc = [w \in Writers |-> "idle"]
    /\ wreq = [w \in Writers |-> NoRequest]
    /\ write_lock = Nothing
    /\ last_commit = [k \in DbKeys |-> Nothing]
    /\ overwritten = {}
    /\ load_result = Nothing

DbInit == DbIdle

\* store_computed is called: conn = _get_conn()
StoreConnect(w, k, p) ==
    /\ wpc[w] = "idle"
    /\ wpc' = [wpc EXCEPT ![w] = "connected"]
    /\ wreq' = [wreq EXCEPT ![w] = [key |-> k, payload |-> p]]
    /\ UNCHANGED <<db, write_lock, last_commit, overwritten, load_result>>
    /\ DbFrame

\* conn.execute("INSERT OR REPLACE ..."): the statement opens a transaction
\* and takes the write lock; the new row is not visible to others yet
StoreExecute(w) ==
    /\ wpc[w] = "connected"
    /\ write_lock = Nothing
    /\ write_lock' = Some(w)
    /\ wpc' = [wpc EXCEPT ![w] = "executed"]
    /\ UNCHANGED <<db, wreq, last_commit, overwritten, load_result>>
    /\ DbFrame

\* the write lock stays with another connection past the busy timeout:
\* conn.execute raises OperationalError and the call writes nothing
StoreLocked(w) ==
    /\ wpc[w] = "connected"
    /\ write_lock # Nothing
    /\ wpc' = [wpc EXCEPT ![w] = "idle"]
    /\ wreq' = [wreq EXCEPT ![w] = NoRequest]
    /\ UNCHANGED <<db, write_lock, last_commit, overwritten, load_result>>
    /\ DbFrame

\* conn.commit(): the row replaces the committed one, the lock is released
StoreCommit(w) ==
    /\ wpc[w] = "executed"
    /\ LET k == wreq[w].key
           p == wreq[w].payload
       IN  /\ db' = insert_or_replace(db, computed_row(k, p))
           /\ last_commit' = [last_commit EXCEPT ![k] = Some(p)]
           /\ overwritten' =
                  IF last_commit[k] \notin {Nothing, Some(p)}
                  THEN overwritten \cup {k} ELSE overwritten
    /\ write_lock' = Nothing
    /\ wpc' = [wpc EXCEPT ![w] = "committed"]
    /\ UNCHANGED <<wreq, load_result>>
    /\ DbFrame

\* conn.close(): store_computed returns
StoreClose(w) ==
    /\ wpc[w] = "committed"
    /\ wpc' = [wpc EXCEPT ![w] = "idle"]
    /\ wreq' = [wreq EXCEPT ![w] = NoRequest]
    /\ UNCHANGED <<db, write_lock, last_commit, overwritten, load_result>>
    /\ DbFrame

\* load_computed(case_id, component), by any process at any time
LoadComputed(k) ==
    /\ load_result' = Some([key |-> k, result |-> load_row(db, k)])
    /\ UNCHANGED <<db, wpc, wreq, write_lock, last_commit, overwritten>>
    /\ DbFrame

DbNext ==
    \/ \E w \in Writers : \E k \in DbKeys : \E p \in Payloads : StoreConnect(w, k, p)
    \/ \E w \in Writers : StoreExecute(w)
    \/ \E w \in Writers : StoreLocked(w)
    \/ \E w \in Writers : StoreCommit(w)
    \/ \E w \in Writers : StoreClose(w)
    \/ \E k \in DbKeys : LoadComputed(k)

(***************************************************************************)
(* The match flag: compute_composite (composite.py:239-246) and the        *)
(* scoreboard loop (dashboard.py:437-444), each after its own classifier   *)
(***************************************************************************)
\* the expected classifications a case can carry: one or two labels joined
\* by "/" (config.CASES), or "Unknown" for a case added without one
\* (cases_store.add_dynamic_case)
ExpectedLabelLists ==
    {<<>>} \cup {<<a>> : a \in Labels} \cup {<<a, b>> : a \in Labels, b \in Labels}

UnknownText == <<"U", "n", "k", "n", "o", "w", "n">>

ExpectedText(labels) ==
    CASE Len(labels) = 0 -> UnknownText
      [] Len(labels) = 1 -> LabelText[labels[1]]
      [] Len(labels) = 2 -> LabelText[labels[1]] \o <<"/">> \o LabelText[labels[2]]

\* str.split(sep): the pieces between the separators
RECURSIVE Split(_, _)
Split(text, sep) ==
    IF \A i \in 1..Len(text) : text[i] # sep THEN <<text>>
    ELSE LET i == CHOOSE j \in 1..Len(text) :
                      text[j] = sep /\ \A k \in 1..(j - 1) : text[k] # sep
         IN  <<SubSeq(text, 1, i - 1)>> \o Split(SubSeq(text, i + 1, Len(text)), sep)

\* str.strip(): without the blanks at either end
RECURSIVE Strip(_)
Strip(text) ==
    IF text = <<>> THEN text
    ELSE IF text[1] = " " THEN Strip(Tail(text))
    ELSE IF text[Len(text)] = " " THEN Strip(SubSeq(text, 1, Len(text) - 1))
    ELSE text

\* "match": classification in case["expected_classification"]
batch_match_flag(classification, expected_text) ==
    IsSubstring(LabelText[classification], expected_text)

\* match_parts = [e.strip() for e in expected.split("/")]; cls_plain in match_parts
scoreboard_match_flag(cls_plain, expected_text) ==
    LET parts == Split(expected_text, "/")
        match_parts == [i \in 1..Len(parts) |-> Strip(parts[i])]
    IN  \E i \in 1..Len(match_parts) : match_parts[i] = LabelText[cls_plain]

\* composite scores, in tenths: inside each label's range, on a boundary,
\* and between two of the batch classifier's integer ranges
MatchScores == {0, 250, 251, 400, 600, 760, 1000}

MatchIdle ==
    /\ expected_labels = <<>>
    /\ expected = UnknownText
    /\ batch_match = Nothing
    /\ dash_match = Nothing

MatchInit ==
    /\ score \in MatchScores
    /\ green_max = 25
    /\ yellow_max = 50
    /\ orange_max = 75
    /\ tii_label = "none"
    /\ plain_label = "none"
    /\ expected_labels \in ExpectedLabelLists
    /\ expected = ExpectedText(expected_labels)
    /\ batch_match = Nothing
    /\ dash_match = Nothing

\* compute_composite: classification = classify_tii(composite), then match
BatchMatch ==
    /\ tii_label' = classify_tii(score)
    /\ batch_match' = Some(batch_match_flag(tii_label', expected))
    /\ UNCHANGED <<score, green_max, yellow_max, orange_max, plain_label,
                   expected_labels, expected, dash_match>>
    /\ MatchFrame

\* scoreboard loop: cls_plain = classify_plain(composite), then match
ScoreboardMatch ==
    /\ plain_label' = classify_plain(score, green_max, yellow_max, orange_max)
    /\ dash_match' = Some(scoreboard_match_flag(plain_label', expected))
    /\ UNCHANGED <<score, green_max, yellow_max, orange_max, tii_label,
                   expected_labels, expected, batch_match>>
    /\ MatchFrame

MatchNext == BatchMatch \/ ScoreboardMatch

(***************************************************************************)
(* compute_nrci, block 2a (nrci.py:60-111): the rolling 15-game average of *)
(* the net rating and its steepest decline.  Every game has a box score    *)
(* row, so no window average is NaN.                                       *)
(***************************************************************************)
window == 15
MaxExtraGames == 4

\* net ratings of the games after the first window, in tenths; a step of
\* 150 moves the 15-game average by one point
ExtraRatings == {-300, -150, 0, 450}

\* the first window games rate 0, which makes the later window averages
\* the running sums of the later games' ratings over 15
NetRatingLogs ==
    {[i \in 1..(window - 1) |-> 0]}
        \cup {[i \in 1..window |-> 0] \o extra :
              extra \in SeqsUpTo(ExtraRatings, MaxExtraGames)}

RECURSIVE SeqSum(_)
SeqSum(seq) == IF seq = <<>> THEN 0 ELSE Head(seq) + SeqSum(Tail(seq))

\* rolling(window, min_periods=window).mean().dropna(): entry k is the sum
\* of the window ending at game k + window - 1 (its mean times window);
\* its index label is k + window - 2
valid_rolling(nr) ==
    [k \in 1..(Len(nr) - window + 1) |->
        SeqSum(SubSeq(nr, k, k + window - 1))]

IndexLabel(k) == k + window - 2

\* position of the first largest / smallest entry: idxmax, idxmin
FirstMax(seq) ==
    CHOOSE k \in 1..Len(seq) :
        /\ \A j \in 1..Len(seq) : seq[j] <= seq[k]
        /\ \A j \in 1..(k - 1) : seq[j] < seq[k]

FirstMin(seq) ==
    CHOOSE k \in 1..Len(seq) :
        /\ \A j \in 1..Len(seq) : seq[j] >= seq[k]
        /\ \A j \in 1..(k - 1) : seq[j] > seq[k]

\* valid[:stop] with an integer stop on a Series: the first stop entries by
\* position, whatever the index labels are
PositionalSlice(seq, stop) == SubSeq(seq, 1, Min(Len(seq), stop))

\* round(float(mean), 1), in tenths
RoundedMean(window_sum) == RoundTo(window_sum, window)

rolling_net_rating(nr) ==
    IF Len(nr) < window THEN EmptyDict
    ELSE LET valid == valid_rolling(nr)
             peak_pos == FirstMax(valid)
             trough_pos == FirstMin(valid)
             peak_idx == IndexLabel(peak_pos)
             trough_idx == IndexLabel(trough_pos)
             peak_val == RoundedMean(valid[peak_pos])
             trough_val == RoundedMean(valid[trough_pos])
             pre_trough == PositionalSlice(valid, trough_idx + 1)
             decline ==
                 IF peak_idx < trough_idx THEN peak_val - trough_val
                 ELSE IF Len(pre_trough) > 0
                 THEN RoundedMean(pre_trough[FirstMax(pre_trough)]) - trough_val
                 ELSE 0
         IN  [peak_rolling |-> peak_val,
              peak_game |-> peak_idx + 1,
              trough_rolling |-> trough_val,
              trough_game |-> trough_idx + 1,
              max_decline |-> decline]

RollIdle ==
    /\ net_rating = <<>>
    /\ rolling_result = None

RollInit ==
    /\ net_rating \in NetRatingLogs
    /\ rolling_result = None

ComputeRolling ==
    /\ rolling_result' = rolling_net_rating(net_rating)
    /\ UNCHANGED net_rating
    /\ RollFrame

RollNext == ComputeRolling

(***************************************************************************)
(* Rotation changes: the post_elim_changes block of ris.compute_ris.       *)
(* Minutes are kept in tenths (pre_avg_minutes and post_min are both       *)
(* round(x, 1)), pct_change in tenths of a percent.                        *)
(***************************************************************************)
\* the players of the pre-elimination baseline: top8_pre = pre_summary
\* .head(8) keeps every player of a summary with fewer than eight
RotationPlayers == {"p1", "p2", "p3"}

\* sampled average minutes: 10.0 and 30.0 before, 0.0 to 30.0 after
PreMinutes == {100, 300}
PostMinutes == {0, 80, 240, 300}

\* one entry of changes: the player has a row in post_summary or has none
rotation_change(pre_avg, post_row) ==
    IF post_row # Nothing
    THEN LET post_min == The(post_row)
             min_change == post_min - pre_avg
         IN  [pre_avg_min |-> pre_avg,
              post_avg_min |-> post_min,
              min_change |-> min_change,
              pct_change |-> IF pre_avg > 0
                             THEN RoundTo(min_change * 100 * Tenth, pre_avg)
                             ELSE 0]
    ELSE [pre_avg_min |-> pre_avg,
          post_avg_min |-> 0,
          min_change |-> -pre_avg,
          pct_change |-> -100 * Tenth]

\* sum(1 for c in changes if c["pct_change"] < -20)
significant_decreases(changes) ==
    Cardinality({p \in DOMAIN changes : changes[p].pct_change < -20 * Tenth})

\* the block runs if post_box has rows and the baseline has a top 8
rotation_changes(pre, post) ==
    IF (\A p \in DOMAIN post : post[p] = Nothing) \/ DOMAIN pre = {}
    THEN EmptyDict
    ELSE LET changes == [p \in DOMAIN pre |-> rotation_change(pre[p], post[p])]
             sig == significant_decreases(changes)
         IN  [changes |-> changes,
              significant_decreases |-> sig,
              rotation_disruption_flag |-> sig >= 3]

RotIdle ==
    /\ pre_avg_minutes = [p \in RotationPlayers |-> 0]
    /\ post_avg_minutes = [p \in RotationPlayers |-> Nothing]
    /\ post_elim_changes = None

RotInit ==
    /\ pre_avg_minutes \in [RotationPlayers -> PreMinutes]
    /\ post_avg_minutes \in
           [RotationPlayers -> {Nothing} \cup {Some(m) : m \in PostMinutes}]
    /\ post_elim_changes = None

ComputeRotation ==
    /\ post_elim_changes = None
    /\ post_elim_changes' = rotation_changes(pre_avg_minutes, post_avg_minutes)
    /\ UNCHANGED <<pre_avg_minutes, post_avg_minutes>>
    /\ RotFrame

RotNext == ComputeRotation

(***************************************************************************)
(* Callers of run_case for the same case side by side.  Every compute_*    *)
(* call and every load_computed / store_computed call is one step: each    *)
(* opens its own connection and commits on its own (cache.py:191-218), and *)
(* compute_composite loads the four bundles with four separate calls       *)
(* (composite.py:198-201).  An ingest may run between any two steps.       *)
(***************************************************************************)
Callers == {"a", "b"}
MaxRaceRuns == 2

\* the steps of compute_composite: its four loads in program order
LoadOrder == <<"SAS", "NRCI", "RIS", "BTCA">>
LoadStep == [SAS |-> "load_SAS", NRCI |-> "load_NRCI", RIS |-> "load_RIS",
             BTCA |-> "load_BTCA"]
NothingLoaded == [c \in Components |-> Nothing]

\* the four bundle rows of the cache
BundleRows(rows) == [c \in Components |-> rows[c]]

RaceIdle ==
    /\ serialized = TRUE
    /\ ppc = [p \in Callers |-> "idle"]
    /\ caller_loaded = [p \in Callers |-> NothingLoaded]
    /\ snapshots = {}
    /\ race_runs = 0

\* a fresh cache over ingested tables; the box score ingest has run or not
RaceInit ==
    /\ game_logs = GameRows(<<"L", "L", "W">>)
    /\ standings \in PipeStandings \ {EmptyTable}
    /\ cutoff_seed = 1
    /\ elim_result = None
    /\ player_game_logs \in PlayerLogTables \ {EmptyTable}
    /\ \E t \in BoxScoreTables : \E u \in PlayerBoxTables :
          /\ (t = EmptyTable) <=> (u = EmptyTable)
          /\ box_scores = t
          /\ player_box = u
    /\ cache = [k \in CacheKeys |-> Nothing]
    /\ pc = "idle"
    /\ run_bundles = [c \in Components |-> Nothing]
    /\ run_result = Nothing
    /\ last_store = Nothing
    /\ ever_stored = {}
    /\ runs = 0
    /\ ingests = 0
    /\ snapshot = Nothing
    /\ tables_changed = FALSE
    /\ serialized \in BOOLEAN
    /\ ppc = [p \in Callers |-> "idle"]
    /\ caller_loaded = [p \in Callers |-> NothingLoaded]
    /\ snapshots = {BundleRows(cache)}
    /\ race_runs = 0

\* what a step of a caller leaves alone
RaceStepFrame ==
    /\ UNCHANGED <<game_logs, standings, cutoff_seed, elim_result,
                   player_game_logs, box_scores, player_box, pc, run_bundles,
                   run_result, last_store, ever_stored, runs, ingests, snapshot,
                   tables_changed, serialized>>
    /\ RaceFrame

\* a store_computed call of a caller, or none for an error marker
RaceStore(component, data, score_opt, is_error) ==
    /\ cache' = IF is_error THEN cache
                ELSE store_computed(cache, component, data, score_opt)
    /\ snapshots' = snapshots \cup {BundleRows(cache')}

\* run_case, step 1, started without waiting for the other caller
RaceElimination_unserialized(p) ==
    /\ ppc[p] = "idle"
    /\ race_runs < MaxRaceRuns
    /\ race_runs' = race_runs + 1
    /\ LET result == compute_elimination_date(game_logs, standings, cutoff_seed)
       IN  RaceStore("elimination", result, Nothing, IsError(result))
    /\ ppc' = [ppc EXCEPT ![p] = "SAS"]
    /\ UNCHANGED caller_loaded
    /\ RaceStepFrame

\* run_case, step 1; a caller that serializes waits for the other's run
RaceElimination(p) ==
    /\ ppc[p] = "idle"
    /\ race_runs < MaxRaceRuns
    /\ serialized => \A q \in Callers : ppc[q] = "idle"
    /\ race_runs' = race_runs + 1
    /\ LET result == compute_elimination_date(game_logs, standings, cutoff_seed)
       IN  RaceStore("elimination", result, Nothing, IsError(result))
    /\ ppc' = [ppc EXCEPT ![p] = "SAS"]
    /\ UNCHANGED caller_loaded
    /\ RaceStepFrame

\* steps 2 to 5
RaceComponent(p, c, result, next) ==
    /\ ppc[p] = c
    /\ RaceStore(c, result, Nothing, Truthy(result, "error"))
    /\ ppc' = [ppc EXCEPT ![p] = next]
    /\ UNCHANGED <<caller_loaded, race_runs>>
    /\ RaceStepFrame

RaceSAS(p) ==
    RaceComponent(p, "SAS", compute_sas(player_game_logs, game_logs, cache), "NRCI")
RaceNRCI(p) ==
    RaceComponent(p, "NRCI", compute_nrci(box_scores, game_logs, cache), "RIS")
RaceRIS(p) ==
    RaceComponent(p, "RIS", compute_ris(player_box, game_logs, cache), "BTCA")
RaceBTCA(p) ==
    RaceComponent(p, "BTCA", compute_btca(standings, game_logs, cache), "supplemental")

\* step 6
RaceSupplemental(p) ==
    /\ ppc[p] = "supplemental"
    /\ RaceStore("supplemental", compute_supplemental(standings), Nothing, FALSE)
    /\ ppc' = [ppc EXCEPT ![p] = LoadStep[LoadOrder[1]]]
    /\ UNCHANGED <<caller_loaded, race_runs>>
    /\ RaceStepFrame

\* step 7, compute_composite: one of its four load_computed calls
RaceLoad(p, i) ==
    /\ ppc[p] = LoadStep[LoadOrder[i]]
    /\ caller_loaded' = [caller_loaded EXCEPT ![p][LoadOrder[i]] = loaded_data(cache, LoadOrder[i])]
    /\ ppc' = [ppc EXCEPT ![p] =
                  IF i < Len(LoadOrder) THEN LoadStep[LoadOrder[i + 1]] ELSE "score"]
    /\ UNCHANGED <<cache, snapshots, race_runs>>
    /\ RaceStepFrame

\* step 7, compute_composite: score what was caller_loaded and store the result
RaceComposite(p) ==
    /\ ppc[p] = "score"
    /\ LET result == composite_result(caller_loaded[p])
       IN  RaceStore("composite", result, Some(result.composite_score), FALSE)
    /\ caller_loaded' = [caller_loaded EXCEPT ![p] = NothingLoaded]
    /\ ppc' = [ppc EXCEPT ![p] = "idle"]
    /\ UNCHANGED race_runs
    /\ RaceStepFrame

RaceNext ==
    \/ \E gl \in PipeGameLogs : IngestGameLogs(gl)
    \/ \E st \in PipeStandings : IngestStandings(st)
    \/ \E t \in PlayerLogTables : IngestPlayerLogs(t)
    \/ \E t \in BoxScoreTables : \E u \in PlayerBoxTables : IngestBoxScores(t, u)
    \/ \E p \in Callers : RaceElimination(p)
    \/ \E p \in Callers : RaceSAS(p)
    \/ \E p \in Callers : RaceNRCI(p)
    \/ \E p \in Callers : RaceRIS(p)
    \/ \E p \in Callers : RaceBTCA(p)
    \/ \E p \in Callers : RaceSupplemental(p)
    \/ \E p \in Callers : \E i \in 1..Len(LoadOrder) : RaceLoad(p, i)
    \/ \E p \in Callers : RaceComposite(p)

(***************************************************************************)
(* The dashboard's loader: dashboard.load_all_case_data                    *)
(***************************************************************************)
DashCases == {"A", "B"}
DashMetrics == {"SAS", "NRCI", "RIS", "BTCA", "supplemental"}

\* sampled stored contents: a bundle is told apart by where it was written
ExportFiles ==
    {Nothing,
     Some([m \in DashMetrics |-> [origin |-> "export"]]),
     Some([m \in {"SAS"} |-> [origin |-> "export"]])}
CacheContents ==
    {[m \in DashMetrics |-> Nothing],
     [m \in DashMetrics |-> Some([origin |-> "cache"])],
     [m \in DashMetrics |-> IF m = "SAS" THEN Some([origin |-> "cache"]) ELSE Nothing]}

\* the metrics of one case's row
case_metrics(export, cache_ok, rows) ==
    IF export # Nothing
    THEN [m \in DashMetrics |-> Get(The(export), m, EmptyDict)]
    ELSE IF cache_ok
    THEN [m \in DashMetrics |-> IF rows[m] # Nothing THEN The(rows[m]) ELSE EmptyDict]
    ELSE [m \in DashMetrics |-> EmptyDict]

load_all_case_data(skip, exports, cache_ok, rows) ==
    [cid \in {c \in DashCases : ~skip[c]} |->
        case_metrics(exports[cid], cache_ok, rows[cid])]

DashIdle ==
    /\ skip_case = [c \in DashCases |-> FALSE]
    /\ json_export = [c \in DashCases |-> Nothing]
    /\ use_cache = TRUE
    /\ computed_rows = [c \in DashCases |-> [m \in DashMetrics |-> Nothing]]
    /\ all_data = None

DashInit ==
    /\ skip_case \in [DashCases -> BOOLEAN]
    /\ json_export \in [DashCases -> ExportFiles]
    /\ use_cache \in BOOLEAN
    /\ computed_rows \in [DashCases -> CacheContents]
    /\ all_data = None

LoadAllCaseData ==
    /\ all_data = None
    /\ all_data' = load_all_case_data(skip_case, json_export, use_cache, computed_rows)
    /\ UNCHANGED <<skip_case, json_export, use_cache, computed_rows>>
    /\ DashFrame

DashNext == LoadAllCaseData

(***************************************************************************)
(* The registry of user-added cases: cases_store.add_dynamic_case.         *)
(* Strings are sequences of characters; the timestamps (created_at, ts)    *)
(* are left out.                                                           *)
(***************************************************************************)
\* str.upper() on the letters that occur
UpperChar ==
    [ch \in {"u", "t", "a", "U", "T", "A", "W", "S"} |->
        CASE ch = "u" -> "U" [] ch = "t" -> "T" [] ch = "a" -> "A" [] OTHER -> ch]
Upper(text) == [i \in 1..Len(text) |-> UpperChar[text[i]]]

\* f"{team_abbr.upper()}-{season}"
make_case_id(team_abbr, season) == Upper(team_abbr) \o <<"-">> \o season

\* sampled arguments of a call
TeamAbbrs == {<<"u", "t", "a">>, <<"U", "T", "A">>, <<"W", "A", "S">>}
SeasonTexts == {<<"2", "4", "-", "2", "5">>}
TeamNames == {"Jazz", "Wizards"}
Contributors == {Nothing, Some("ann")}
AddRequests ==
    [team_abbr : TeamAbbrs, season : SeasonTexts, team_name : TeamNames,
     added_by : Contributors]

\* add_dynamic_case that writes the entry whether or not the id exists
add_dynamic_case_overwrite(cases, log, req) ==
    LET case_id == make_case_id(req.team_abbr, req.season)
        entry == [team_abbr |-> Upper(req.team_abbr), season |-> req.season,
                  team_name |-> req.team_name, added_by |-> req.added_by]
    IN  [cases |-> [id \in DOMAIN cases \cup {case_id} |->
                       IF id = case_id THEN entry ELSE cases[id]],
         log |-> Append(log, [event |-> "case_added", case_id |-> case_id,
                              added_by |-> req.added_by]),
         returned |-> case_id]

\* add_dynamic_case: the registry and the activity log it leaves, and the
\* id it returns
add_dynamic_case(cases, log, req) ==
    LET case_id == make_case_id(req.team_abbr, req.season)
        entry == [team_abbr |-> Upper(req.team_abbr), season |-> req.season,
                  team_name |-> req.team_name, added_by |-> req.added_by]
    IN  IF case_id \in DOMAIN cases
        THEN [cases |-> cases, log |-> log, returned |-> case_id]
        ELSE [cases |-> [id \in DOMAIN cases \cup {case_id} |->
                            IF id = case_id THEN entry ELSE cases[id]],
              log |-> Append(log, [event |-> "case_added", case_id |-> case_id,
                                   added_by |-> req.added_by]),
              returned |-> case_id]

\* load_dynamic_cases on a missing file: {}
RegIdle ==
    /\ registry = EmptyDict
    /\ activity_log = <<>>
    /\ add_request = None
    /\ add_result = None

RegInit == RegIdle

AddDynamicCase(req) ==
    /\ LET out == add_dynamic_case(registry, activity_log, req)
       IN  /\ registry' = out.cases
           /\ activity_log' = out.log
           /\ add_result' = out.returned
    /\ add_request' = req
    /\ RegFrame

RegNext == \E req \in AddRequests : AddDynamicCase(req)

(***************************************************************************)
(* The pre/post-elimination splits of the four components and the BTCA     *)
(* calendar periods.  A game's id is its game_number and its date is the   *)
(* day it was played; the box scores hold a row for every game.            *)
(***************************************************************************)
\* the qualified players of the season
SplitPlayers == {"p1", "p2"}

\* sampled dates of the season's trade deadline and All-Star break: either
\* order occurs in config.py (2013-14: deadline after the break), and a
\* season the tables do not list has neither
CalendarDates == {Nothing, Some(2), Some(3)}

\* sum of f over its domain
RECURSIVE SumOf(_)
SumOf(f) ==
    IF DOMAIN f = {} THEN 0
    ELSE LET k == CHOOSE k \in DOMAIN f : TRUE
         IN  f[k] + SumOf([j \in DOMAIN f \ {k} |-> f[j]])

\* what the elimination resolver stored for the season
elimination_of(gl, cutoff) == elimination_walk(gl, 1, 0, cutoff)

\* compute_sas, per player: the missed games dated on or after the
\* elimination date are post-elimination, the others pre-elimination
player_elim_missed(gl, missed, elim_date) ==
    IF elim_date # Nothing /\ missed # {}
    THEN [post_elim_missed |->
              Cardinality({g \in missed : gl[g].game_date >= The(elim_date)}),
          pre_elim_missed |->
              Cardinality({g \in missed : gl[g].game_date < The(elim_date)})]
    ELSE [post_elim_missed |-> 0, pre_elim_missed |-> 0]

\* compute_sas, 1c: result["clustering"]; rates are round(x, 3), in
\* thousandths
sas_clustering(gl, players_list, elim_date, elim_game_num) ==
    IF elim_date # Nothing /\ elim_game_num # Nothing /\ DOMAIN players_list # {}
    THEN LET pre_elim_games == The(elim_game_num)
             post_elim_games == Len(gl) - The(elim_game_num)
             total_pre_absences ==
                 SumOf([p \in DOMAIN players_list |-> players_list[p].pre_elim_missed])
             total_post_absences ==
                 SumOf([p \in DOMAIN players_list |-> players_list[p].post_elim_missed])
             num == Cardinality(DOMAIN players_list)
             pre_possible == IF pre_elim_games > 0 THEN num * pre_elim_games ELSE 0
             post_possible == IF post_elim_games > 0 THEN num * post_elim_games ELSE 0
         IN  [pre_elim_games |-> pre_elim_games,
              post_elim_games |-> post_elim_games,
              pre_elim_absences |-> total_pre_absences,
              post_elim_absences |-> total_post_absences,
              pre_elim_absence_rate |->
                  IF pre_possible > 0
                  THEN RoundTo(Milli * total_pre_absences, pre_possible) ELSE 0,
              post_elim_absence_rate |->
                  IF post_possible > 0
                  THEN RoundTo(Milli * total_post_absences, post_possible) ELSE 0]
    ELSE [note |-> "No elimination date - clustering N/A"]

\* compute_nrci, 2c: merged.iloc[:elim_game_num] and merged.iloc[elim_game_num:]
nrci_pre_post_elim(gl, elim_date, elim_game_num) ==
    IF elim_date # Nothing /\ elim_game_num # Nothing
    THEN LET pre_elim == {g \in 1..Len(gl) : g <= The(elim_game_num)}
             post_elim == {g \in 1..Len(gl) : g > The(elim_game_num)}
         IN  IF pre_elim # {} /\ post_elim # {}
             THEN [pre_elim_games |-> Cardinality(pre_elim),
                   post_elim_games |-> Cardinality(post_elim)]
             ELSE EmptyDict
    ELSE [note |-> "No elimination date - split N/A"]

\* compute_ris: game_logs.iloc[:elim_game_num] and game_logs.iloc[elim_game_num:]
ris_elim_games(gl, elim_date, elim_game_num) ==
    IF elim_date = Nothing \/ elim_game_num = Nothing
    THEN [error |-> "No elimination date - RIS requires elimination context"]
    ELSE [pre_elim_games |->
              Cardinality({g \in 1..Len(gl) : g <= The(elim_game_num)}),
          post_elim_games |->
              Cardinality({g \in 1..Len(gl) : g > The(elim_game_num)})]

\* the rows of one calendar period as a periods entry, or no entry
period_entry(gl, name, rows) ==
    IF rows = {} THEN EmptyDict
    ELSE [p \in {name} |->
             [win_rate |-> RoundTo(Milli * Cardinality({g \in rows : gl[g].wl = "W"}),
                                   Cardinality(rows)),
              games |-> Cardinality(rows)]]

\* two dicts with different keys in one
Merge(d, e) ==
    [k \in DOMAIN d \cup DOMAIN e |-> IF k \in DOMAIN e THEN e[k] ELSE d[k]]

\* compute_btca, 4c: periods
calendar_periods(gl, td, asb, elim_date) ==
    LET games == 1..Len(gl)
        pre_td ==
            IF td # Nothing
            THEN period_entry(gl, "Pre-trade deadline",
                     {g \in games : gl[g].game_date < The(td)})
            ELSE EmptyDict
        td_to_asb ==
            IF td # Nothing /\ asb # Nothing
            THEN period_entry(gl, "Post-deadline to ASB",
                     {g \in games : gl[g].game_date >= The(td)
                                    /\ gl[g].game_date < The(asb)})
            ELSE EmptyDict
        post_asb ==
            IF asb # Nothing /\ elim_date # Nothing
            THEN period_entry(gl, "Post-ASB to elimination",
                     {g \in games : gl[g].game_date >= The(asb)
                                    /\ gl[g].game_date < The(elim_date)})
            ELSE IF asb # Nothing
            THEN period_entry(gl, "Post-ASB",
                     {g \in games : gl[g].game_date >= The(asb)})
            ELSE EmptyDict
        post_elim ==
            IF elim_date # Nothing THEN post_elimination_period(gl, elim_date)
            ELSE EmptyDict
    IN  Merge(Merge(Merge(pre_td, td_to_asb), post_asb), post_elim)

SplitIdle ==
    /\ season_log = EmptyTable
    /\ season_cutoff = 0
    /\ missed_game_ids = [p \in SplitPlayers |-> {}]
    /\ trade_deadline = Nothing
    /\ asb_date = Nothing
    /\ split_result = None
    /\ calendar_result = None

\* a season of at least one game; a qualified player appears in at least
\* one game; the second player appears in all or misses the last
SplitInit ==
    /\ season_log \in GameLogTables \ {EmptyTable}
    /\ season_cutoff \in 0..(MaxGames + 1)
    /\ missed_game_ids \in
           {m \in [SplitPlayers -> SUBSET (1..Len(season_log))] :
               /\ m["p1"] # 1..Len(season_log)
               /\ m["p2"] \in {{}, {Len(season_log)}} \ {1..Len(season_log)}}
    /\ trade_deadline \in CalendarDates
    /\ asb_date \in CalendarDates
    /\ split_result = None
    /\ calendar_result = None

\* the split blocks of compute_sas, compute_nrci, compute_ris and the
\* Post-elimination period of compute_btca, over one stored elimination
ComputeSplits ==
    /\ split_result = None
    /\ LET elim == elimination_of(season_log, season_cutoff)
           players_list ==
               [p \in SplitPlayers |->
                   player_elim_missed(season_log, missed_game_ids[p], elim.date)]
       IN  split_result' =
               [qualified_players |-> players_list,
                clustering |-> sas_clustering(season_log, players_list,
                                              elim.date, elim.game),
                pre_post_elim |-> nrci_pre_post_elim(season_log, elim.date, elim.game),
                ris |-> ris_elim_games(season_log, elim.date, elim.game),
                periods |-> IF elim.date = Nothing THEN EmptyDict
                            ELSE post_elimination_period(season_log, elim.date)]
    /\ UNCHANGED <<season_log, season_cutoff, missed_game_ids, trade_deadline,
                   asb_date, calendar_result>>
    /\ SplitFrame

\* compute_btca, 4c
ComputeCalendar ==
    /\ calendar_result = None
    /\ calendar_result' =
           calendar_periods(season_log, trade_deadline, asb_date,
                            elimination_of(season_log, season_cutoff).date)
    /\ UNCHANGED <<season_log, season_cutoff, missed_game_ids, trade_deadline,
                   asb_date, split_result>>
    /\ SplitFrame

SplitNext == ComputeSplits \/ ComputeCalendar

(***************************************************************************)
(* Case preferences: case_prefs.set_pref called from two dashboard         *)
(* sessions.  set_pref reads the whole file, changes one entry of the dict *)
(* it read and writes the whole dict back; nothing locks the file, so the  *)
(* read and the write of a call are two steps.                             *)
(***************************************************************************)
Sessions == {"s1", "s2"}
PrefCases == {"A", "B"}
PrefKeys == {"pinned", "hidden"}
PrefRequests == [case_id : PrefCases, key : PrefKeys, value : BOOLEAN]
MaxPrefCalls == 2

\* prefs.setdefault(case_id, {})[key] = value
set_entry(prefs, case_id, key, value) ==
    LET old == Get(prefs, case_id, EmptyDict)
    IN  Merge(prefs, [c \in {case_id} |-> Merge(old, [k \in {key} |-> value])])

\* prefs.get(case_id, {}).get(key, default)
get_pref(prefs, case_id, key, default) ==
    Get(Get(prefs, case_id, EmptyDict), key, default)

\* load_case_prefs on a missing file: {}
PrefIdle ==
    /\ prefs_file = EmptyDict
    /\ session_pc = [s \in Sessions |-> "idle"]
    /\ session_req = [s \in Sessions |-> Nothing]
    /\ session_prefs = [s \in Sessions |-> EmptyDict]
    /\ last_written = [e \in PrefCases \X PrefKeys |-> Nothing]
    /\ pref_calls = 0

PrefInit == PrefIdle

\* set_pref, first line: prefs = load_case_prefs()
SetPrefLoad(s, req) ==
    /\ session_pc[s] = "idle"
    /\ pref_calls < MaxPrefCalls
    /\ pref_calls' = pref_calls + 1
    /\ session_req' = [session_req EXCEPT ![s] = Some(req)]
    /\ session_prefs' = [session_prefs EXCEPT ![s] = prefs_file]
    /\ session_pc' = [session_pc EXCEPT ![s] = "loaded"]
    /\ UNCHANGED <<prefs_file, last_written>>
    /\ PrefFrame

\* set_pref, the other two lines: set the entry, save_case_prefs(prefs)
SetPrefSave(s) ==
    /\ session_pc[s] = "loaded"
    /\ LET req == The(session_req[s])
       IN  /\ prefs_file' = set_entry(session_prefs[s], req.case_id, req.key, req.value)
           /\ last_written' =
                  [last_written EXCEPT ![<<req.case_id, req.key>>] = Some(req.value)]
    /\ session_pc' = [session_pc EXCEPT ![s] = "idle"]
    /\ session_prefs' = [session_prefs EXCEPT ![s] = EmptyDict]
    /\ UNCHANGED <<session_req, pref_calls>>
    /\ PrefFrame

PrefNext ==
    \/ \E s \in Sessions : \E req \in PrefRequests : SetPrefLoad(s, req)
    \/ \E s \in Sessions : SetPrefSave(s)

(***************************************************************************)
(* Specifications                                                          *)
(***************************************************************************)
EarlyIdle ==
    /\ ClsIdle /\ CompIdle /\ ElimIdle /\ ScoreIdle /\ PipeIdle /\ DbIdle
    /\ MatchIdle /\ RollIdle

LateIdle == RotIdle /\ RaceIdle /\ DashIdle /\ RegIdle /\ SplitIdle /\ PrefIdle

RotStart ==
    RotInit /\ EarlyIdle /\ RaceIdle /\ DashIdle /\ RegIdle /\ SplitIdle /\ PrefIdle
SpecRotation == RotStart /\ [][RotNext]_vars

ClsStart ==
    ClsInit /\ CompIdle /\ ElimIdle /\ ScoreIdle /\ PipeIdle /\ DbIdle /\ MatchIdle /\ RollIdle /\ LateIdle
SpecClassify == ClsStart /\ [][ClsNext]_vars

CompStart ==
    CompInit /\ ClsIdle /\ ElimIdle /\ ScoreIdle /\ PipeIdle /\ DbIdle /\ MatchIdle /\ RollIdle /\ LateIdle
SpecComposite == CompStart /\ [][CompNext]_vars

ElimStart ==
    ElimInit /\ ClsIdle /\ CompIdle /\ ScoreIdle /\ PipeIdle /\ DbIdle /\ MatchIdle /\ RollIdle /\ LateIdle
SpecElimination == ElimStart /\ [][ElimNext]_vars

ScoreStart ==
    ScoreInit /\ ClsIdle /\ CompIdle /\ ElimIdle /\ PipeIdle /\ DbIdle /\ MatchIdle /\ RollIdle /\ LateIdle
SpecScoring == ScoreStart /\ [][ScoreNext]_vars

PipeStart ==
    PipeInit /\ ClsIdle /\ CompIdle /\ ScoreIdle /\ DbIdle /\ MatchIdle /\ RollIdle /\ LateIdle
SpecPipeline == PipeStart /\ [][PipeNext]_vars

DbStart ==
    DbInit /\ ClsIdle /\ CompIdle /\ ElimIdle /\ ScoreIdle /\ PipeIdle /\ MatchIdle /\ RollIdle /\ LateIdle
SpecCache == DbStart /\ [][DbNext]_vars

MatchStart ==
    MatchInit /\ CompIdle /\ ElimIdle /\ ScoreIdle /\ PipeIdle /\ DbIdle /\ RollIdle /\ LateIdle
SpecMatch == MatchStart /\ [][MatchNext]_vars

RollStart ==
    RollInit /\ ClsIdle /\ CompIdle /\ ElimIdle /\ ScoreIdle /\ PipeIdle /\ DbIdle
        /\ MatchIdle /\ LateIdle
SpecRolling == RollStart /\ [][RollNext]_vars

RaceStart ==
    RaceInit /\ ClsIdle /\ CompIdle /\ ScoreIdle /\ DbIdle /\ MatchIdle /\ RollIdle
        /\ RotIdle /\ DashIdle /\ RegIdle /\ SplitIdle /\ PrefIdle
SpecRace == RaceStart /\ [][RaceNext]_vars

DashStart ==
    DashInit /\ EarlyIdle /\ RotIdle /\ RaceIdle /\ RegIdle /\ SplitIdle /\ PrefIdle
SpecDashLoad == DashStart /\ [][DashNext]_vars

RegStart ==
    RegInit /\ EarlyIdle /\ RotIdle /\ RaceIdle /\ DashIdle /\ SplitIdle /\ PrefIdle
SpecRegistry == RegStart /\ [][RegNext]_vars

SplitStart ==
    SplitInit /\ EarlyIdle /\ RotIdle /\ RaceIdle /\ DashIdle /\ RegIdle /\ PrefIdle
SpecSplit == SplitStart /\ [][SplitNext]_vars

PrefStart ==
    PrefInit /\ EarlyIdle /\ RotIdle /\ RaceIdle /\ DashIdle /\ RegIdle /\ SplitIdle
SpecPrefs == PrefStart /\ [][PrefNext]_vars

(***************************************************************************)
(* Classification claims                                                   *)
(***************************************************************************)
\* C1: for every score in [0,100] with one decimal, classify_tii returns
\* Green up to 25, Yellow above 25 up to 50, Orange above 50 up to 75 and Red
\* above 75, so that the four labels leave no gap (25.1 is Yellow).
C1_ClassifyTiiPartition ==
    tii_label # "none" =>
        tii_label = (IF score <= 25 * Tenth THEN "Green"
                     ELSE IF score <= 50 * Tenth THEN "Yellow"
                     ELSE IF score <= 75 * Tenth THEN "Orange"
                     ELSE "Red")

\* C5: at the default boundaries 25/50/75 the batch classifier and the
\* dashboard classifier give every one-decimal score the same label.
C5_BatchDashboardAgree ==
    (/\ tii_label # "none"
     /\ plain_label # "none"
     /\ green_max = 25 /\ yellow_max = 50 /\ orange_max = 75)
        => tii_label = plain_label

\* C6: for every ascending integer boundary triple and every score,
\* classify_plain returns exactly one of the four labels: Green iff the score
\* is at most green_max, Yellow iff it is above green_max and at most
\* yellow_max, Orange iff above yellow_max and at most orange_max, Red iff
\* above orange_max.
C6_ClassifyPlainRanges ==
    plain_label # "none" =>
        /\ plain_label \in Labels
        /\ plain_label = "Green" <=> score <= green_max * Tenth
        /\ plain_label = "Yellow" <=>
               (green_max * Tenth < score /\ score <= yellow_max * Tenth)
        /\ plain_label = "Orange" <=>
               (yellow_max * Tenth < score /\ score <= orange_max * Tenth)
        /\ plain_label = "Red" <=> orange_max * Tenth < score

\* C6 witness: a score exactly on a moved yellow ceiling is classified Yellow
C6_Witness ==
    /\ plain_label = "Yellow"
    /\ score = yellow_max * Tenth
    /\ green_max # 25
    /\ yellow_max # 50

(***************************************************************************)
(* Composite claims                                                        *)
(***************************************************************************)
\* C3: the composite equals the exact weighted sum of the four component
\* scores rounded once to one decimal, in the batch compute_composite as in
\* the dashboard scoreboard.
C3_CompositeIsRoundedSum ==
    /\ batch_result # None =>
          batch_result.composite_score =
              RoundTo(SumOver([c \in Components |->
                          raw_scores[c] * WEIGHTS[c]]), Hundredth)
    /\ dash_result # None =>
          dash_result.composite_score =
              RoundTo(SumOver([c \in Components |->
                          raw_scores[c] * weights[c]]), Hundredth)

\* C9: for all component scores in [0,100] and every weight setting the
\* sliders accept, the composite lies in [0,100].
C9_CompositeInRange ==
    /\ batch_result # None =>
          (0 <= batch_result.composite_score
             /\ batch_result.composite_score <= ScoreCeiling * Tenth)
    /\ dash_result # None =>
          (0 <= dash_result.composite_score
             /\ dash_result.composite_score <= ScoreCeiling * Tenth)

(***************************************************************************)
(* Elimination claims                                                      *)
(***************************************************************************)
\* wins in games 1..k of the current game log
WinsThrough(k) == Cardinality({i \in 1..k : game_logs[i].wl = "W"})

\* the wins of the cutoff_seed-th team of the case's conference: at least
\* cutoff_seed teams have that many wins or more, fewer have more
IsCutoffWins(v) ==
    LET conf == {t \in DOMAIN standings :
                    get_conference(t) = get_conference(CaseTeam)}
    IN  /\ Cardinality({t \in conf : standings[t] >= v}) >= cutoff_seed
        /\ Cardinality({t \in conf : standings[t] > v}) < cutoff_seed

\* the games k after which the team cannot reach cutoff wins any more
EliminatedAt(cutoff) ==
    {k \in 1..Len(game_logs) :
        WinsThrough(k) + (Len(game_logs) - k) < cutoff}

\* C4: the resolver reports the smallest game k with
\* wins(1..k) + (N - k) < cutoff_wins, with that game's date, where
\* cutoff_wins is the win total of the cutoff_seed-th team of the conference;
\* if there is no such game it reports no date and no game number and
\* carries the final win total.
C4_FirstEliminationGame ==
    (elim_result # None /\ ~IsError(elim_result)) =>
        LET cutoff == elim_result.playoff_cutoff_wins
            ks == EliminatedAt(cutoff)
        IN  /\ IsCutoffWins(cutoff)
            /\ ks # {} =>
                  /\ elim_result.elimination_game_number = Some(SetMin(ks))
                  /\ elim_result.elimination_date =
                         Some(game_logs[SetMin(ks)].game_date)
            /\ ks = {} =>
                  /\ elim_result.elimination_game_number = Nothing
                  /\ elim_result.elimination_date = Nothing
                  /\ elim_result.final_wins =
                         Some(WinsThrough(Len(game_logs)))

\* C4 witness: a team eliminated strictly inside its season, after a win,
\* with a cutoff taken from the second seed
C4_Witness ==
    /\ elim_result # None
    /\ ~IsError(elim_result)
    /\ cutoff_seed = 2
    /\ elim_result.elimination_game_number = Some(3)
    /\ Len(game_logs) = 4
    /\ game_logs[1].wl = "W"

(***************************************************************************)
(* Scorer claims                                                           *)
(***************************************************************************)
\* the bundle is absent from the cache, is the empty dict, or carries a
\* top-level error marker
NoUsableBundle ==
    \/ bundle = Nothing
    \/ \E d \in bundle : DOMAIN d = {} \/ "error" \in DOMAIN d

\* C7: a component scorer, batch or dashboard, given a bundle that is
\* empty, absent from the cache or marked with a top-level error returns
\* exactly 0.0, whatever the sliders say.
C7_NoBundleScoresZero ==
    NoUsableBundle =>
        /\ \A v \in batch_score : v = 0
        /\ \A v \in dash_score : v = 0

\* C7 witness: both scorers have run on an error-marked NRCI bundle with a
\* slider moved off its default
C7_Witness ==
    /\ scored_component = "NRCI"
    /\ \E d \in bundle : "error" \in DOMAIN d
    /\ thresholds # DefaultThresholds
    /\ batch_score = Some(0)
    /\ dash_score = Some(0)

\* C8: for every bundle of metrics and every setting of the sliders inside
\* their ranges, each scorer returns a score between 0 and 100.
C8_ScoreInRange ==
    /\ \A v \in batch_score : 0 <= v /\ v <= ScoreCeiling * Tenth
    /\ \A v \in dash_score : 0 <= v /\ v <= ScoreCeiling * Tenth

\* C8 witness: a bundle of metrics scored by both scorers, with sliders
\* off their defaults, strictly inside the range on the dashboard
C8_Witness ==
    /\ ~NoUsableBundle
    /\ thresholds # DefaultThresholds
    /\ batch_score # Nothing
    /\ \E v \in dash_score : 0 < v /\ v < ScoreCeiling * Tenth

(***************************************************************************)
(* Pipeline claims                                                         *)
(***************************************************************************)
\* the components whose compute_* returned an error marker in this run
RunErrors ==
    {c \in Components : \E b \in run_bundles[c] : "error" \in DOMAIN b}

\* C2: when a run of run_case has produced its composite, every component
\* whose compute_* returned an error marker in that run has raw score 0 in
\* it, whatever the cache held before, and every other component has the
\* score of the bundle its compute_* returned in that run.
C2_ErrorScoresZeroInSameRun ==
    \A r \in run_result :
        \A c \in Components :
            /\ c \in RunErrors => r.raw_scores[c] = 0
            /\ c \notin RunErrors =>
                  \A b \in run_bundles[c] : r.raw_scores[c] = batch_scorer(c, b)

\* C10: load_computed on the key of the latest store_computed call returns
\* the data and the score that call was given, and load_computed on a key
\* never stored returns None.
C10_StoreLoadRoundTrip ==
    /\ \A s \in last_store :
          load_computed(cache, s.component) =
              Some([data |-> s.data, score |-> s.score])
    /\ \A k \in CacheKeys \ ever_stored : load_computed(cache, k) = Nothing

(***************************************************************************)
(* C11: the table holds at most one row per (case_id, component); a load   *)
(* of a key returns the whole data and score of the store committed last   *)
(* to that key, as json.loads gives them back, never a mix of two stores,  *)
(* and None for a key without a committed store; commits to other keys     *)
(* and stores that have not committed yet do not show.                     *)
(***************************************************************************)
C11_LastCommittedStoreWins ==
    /\ \A r1 \in db : \A r2 \in db :
           <<r1.case_id, r1.component>> = <<r2.case_id, r2.component>> => r1 = r2
    /\ \A k \in DbKeys :
           load_row(db, k) =
               IF last_commit[k] = Nothing THEN Nothing
               ELSE Some([data |-> json_loads(json_dumps(The(last_commit[k]).data)),
                          score |-> The(last_commit[k]).score])

\* a key was overwritten with a different value, another key holds a
\* different committed value, a third store to the first key is executed
\* but not committed, and a load of the first key has returned
C11_Witness ==
    /\ load_result # Nothing
    /\ LET k == The(load_result).key
       IN  /\ k \in overwritten
           /\ The(load_result).result = load_row(db, k)
           /\ \E w \in Writers :
                  /\ wpc[w] = "executed"
                  /\ wreq[w].key = k
                  /\ Some(wreq[w].payload) # last_commit[k]
           /\ \E k2 \in DbKeys \ {k} :
                  last_commit[k2] \notin {Nothing, last_commit[k]}

(***************************************************************************)
(* C12: once a run of the pipeline has completed, running it again while   *)
(* no ingest has changed a raw table leaves every row of the cache (data   *)
(* and score of every key, elimination and composite included) as that run *)
(* left it, at every step of the later runs.                               *)
(***************************************************************************)
C12_RerunKeepsCache ==
    (snapshot # Nothing /\ ~tables_changed) => cache = The(snapshot)

\* a second run over unchanged tables has completed, on a cache that held
\* rows of an earlier run over different tables, and every key has a row
C12_Witness ==
    /\ pc = "idle"
    /\ runs = 3
    /\ ingests = 1
    /\ ~tables_changed
    /\ snapshot # Nothing
    /\ \A k \in CacheKeys : cache[k] # Nothing

(***************************************************************************)
(* C13: in a run whose cached elimination result has no elimination date   *)
(* (no row, or a row of a team never eliminated), the bundle compute_ris   *)
(* returned carries the error marker; the bundles compute_sas,             *)
(* compute_nrci and compute_btca returned over their non-empty raw tables  *)
(* carry none: SAS and NRCI hold a note in place of the pre/post split and *)
(* BTCA has no post-elimination period and no elimination date.            *)
(***************************************************************************)
NoEliminationDate == CachedElimination(cache, "elimination_date") = Nothing

MissingEliminationInput ==
    \/ standings = EmptyTable
    \/ game_logs = EmptyTable
    \/ Len(conf_standings(standings, get_conference(CaseTeam))) < cutoff_seed

C14_MissingInputGivesError ==
    (elim_result # None /\ MissingEliminationInput) =>
        /\ IsError(elim_result)
        /\ elim_result.error # ""
        /\ ~Truthy(elim_result, "elimination_date")
        /\ ~Truthy(elim_result, "elimination_game_number")

\* both tables are there, the conference is short of teams, and the
\* resolver has returned
C14_Witness ==
    /\ elim_result # None
    /\ standings # EmptyTable
    /\ game_logs # EmptyTable
    /\ Len(conf_standings(standings, get_conference(CaseTeam))) < cutoff_seed

(***************************************************************************)
(* C15: for a SAS bundle and the same bundle with a higher absence_rate,   *)
(* neither _score_sas nor score_sas (at the thresholds the sliders are     *)
(* set to) gives the higher rate the lower score.  The rates compared are  *)
(* every SweepStep thousandths from 0 to 1, step by step.                  *)
(***************************************************************************)
SweepStep == 50
AbsenceSweep == {SweepStep * k : k \in 0..(Milli \div SweepStep)}

WithAbsenceRate(data, rate) ==
    [data EXCEPT !.absence_summary = [absence_rate |-> rate]]

IsSasMetricBundle ==
    /\ scored_component = "SAS"
    /\ bundle # Nothing
    /\ Truthy(The(bundle), "absence_summary")
    /\ Truthy(The(bundle).absence_summary, "absence_rate")

C15_AbsenceRateMonotone ==
    (IsSasMetricBundle /\ batch_score # Nothing /\ dash_score # Nothing) =>
        LET rate == The(bundle).absence_summary.absence_rate
        IN  \A r \in AbsenceSweep \cup {rate} :
                LET lower == WithAbsenceRate(The(bundle), r)
                    higher == WithAbsenceRate(The(bundle), r + SweepStep)
                IN  /\ _score_sas(lower) <= _score_sas(higher)
                    /\ score_sas(lower, thresholds) <= score_sas(higher, thresholds)

\* both scorers have scored a bundle whose absence rate lies on a ramp: a
\* step up in the rate raises both scores; the low and mid sliders are off
\* their defaults
C15_Witness ==
    /\ IsSasMetricBundle /\ batch_score # Nothing /\ dash_score # Nothing
    /\ thresholds.sas_absence_low # DefaultThresholds.sas_absence_low
    /\ thresholds.sas_absence_mid # DefaultThresholds.sas_absence_mid
    /\ LET higher == WithAbsenceRate(The(bundle),
                        The(bundle).absence_summary.absence_rate + SweepStep)
       IN  /\ The(batch_score) < _score_sas(higher)
           /\ The(dash_score) < score_sas(higher, thresholds)

(***************************************************************************)
(* C16: for a SAS bundle and the thresholds the sliders are set to,        *)
(* moving one of sas_absence_low, sas_absence_mid, sas_absence_high,       *)
(* sas_cluster_flag, sas_skew_flag up within its slider range (one step    *)
(* up, or up to any sampled position), the others left alone, does not     *)
(* raise the score score_sas returns.                                      *)
(***************************************************************************)
SasSliders == {n \in SliderNames : SLIDERS[n].component = "SAS"}

RaisedPositions(n, v) ==
    {u \in SliderPositions(n) \cup {v + SLIDERS[n].step} :
        u > v /\ u <= SLIDERS[n].hi}

C16_RaisedThresholdNeverRaisesScore ==
    (scored_component = "SAS" /\ bundle # Nothing /\ dash_score # Nothing) =>
        \A n \in SasSliders : \A u \in RaisedPositions(n, thresholds[n]) :
            score_sas(The(bundle), [thresholds EXCEPT ![n] = u]) <= The(dash_score)

\* score_sas has scored a bundle above 0 and one step up of a slider
\* lowers the score
C16_Witness ==
    /\ scored_component = "SAS" /\ bundle # Nothing /\ dash_score # Nothing
    /\ The(dash_score) > 0
    /\ \E n \in SasSliders :
           /\ thresholds[n] # DefaultThresholds[n]
           /\ thresholds[n] + SLIDERS[n].step <= SLIDERS[n].hi
           /\ score_sas(The(bundle),
                  [thresholds EXCEPT ![n] = thresholds[n] + SLIDERS[n].step])
                  < The(dash_score)

(***************************************************************************)
(* C17: the match flag of compute_composite's result and the match of the  *)
(* scoreboard row are true exactly when the label the path's classifier    *)
(* returned is one of the labels the case's expected classification names. *)
(***************************************************************************)
NamedLabels == {expected_labels[i] : i \in 1..Len(expected_labels)}

C17_MatchIsMembership ==
    /\ \A m \in batch_match : m = (tii_label \in NamedLabels)
    /\ \A m \in dash_match : m = (plain_label \in NamedLabels)

\* both paths have set their flag for a case that expects two different
\* labels: the label is the second one named, or a label not named
C17_Witness ==
    /\ batch_match # Nothing /\ dash_match # Nothing
    /\ Len(expected_labels) = 2
    /\ expected_labels[1] # expected_labels[2]
    /\ tii_label # expected_labels[1]
    /\ batch_match = Some(tii_label = expected_labels[2])
    /\ dash_match = Some(plain_label = expected_labels[2])

(***************************************************************************)
(* C18: with every threshold slider at its default, the dashboard scorer   *)
(* of a component returns, for every bundle, the score the batch scorer    *)
(* of that component returns.                                              *)
(***************************************************************************)
C18_DefaultsAgreeWithBatch ==
    (thresholds = DefaultThresholds /\ batch_score # Nothing /\ dash_score # Nothing)
        => batch_score = dash_score

(***************************************************************************)
(* Rolling decline claims                                                  *)
(***************************************************************************)
\* the rolling averages of the current game log as the code reports them:
\* rounded to one decimal, in tenths, oldest window first
RollingAverages ==
    LET valid == valid_rolling(net_rating)
    IN  [k \in 1..Len(valid) |-> RoundedMean(valid[k])]

HasDecline == rolling_result # None /\ Truthy(rolling_result, "max_decline")

\* the window of the season's lowest rolling average, by position
TroughWindow == rolling_result.trough_game - window + 1

(***************************************************************************)
(* C19: max_decline is the largest rolling[i] - rolling[j] over the pairs  *)
(* of windows with i no later than j.                                      *)
(***************************************************************************)
C19_MaxDeclineIsLargestDrop ==
    HasDecline =>
        LET r == RollingAverages
            pairs == {q \in (1..Len(r)) \X (1..Len(r)) : q[1] <= q[2]}
        IN  rolling_result.max_decline =
                SetMax({r[p[1]] - r[p[2]] : p \in pairs})

(***************************************************************************)
(* C20: max_decline is the drop to the trough from a window that ends no   *)
(* later than the trough's window, and it is never negative.               *)
(***************************************************************************)
C20_PeakNotAfterTrough ==
    HasDecline =>
        LET r == RollingAverages
        IN  /\ rolling_result.max_decline >= 0
            /\ \E i \in 1..TroughWindow :
                   rolling_result.max_decline = r[i] - r[TroughWindow]

(***************************************************************************)
(* Rotation claims                                                         *)
(***************************************************************************)
\* the baseline players whose post-elimination average is at least 20%
\* below their pre-elimination average; a player without a post-elimination
\* appearance has post average 0
DroppedTwentyPercent ==
    {p \in RotationPlayers :
        LET pre == pre_avg_minutes[p]
            post == IF post_avg_minutes[p] = Nothing THEN 0
                    ELSE The(post_avg_minutes[p])
        IN  pre > 0 /\ 5 * (pre - post) >= pre}

\* C21: significant_decreases counts every baseline player whose average
\* minutes dropped by 20% or more, a drop of exactly 20% and a player with
\* no post-elimination appearance included
C21_CountsDropsOfTwentyPercent ==
    (post_elim_changes # None /\ Truthy(post_elim_changes, "significant_decreases"))
        => post_elim_changes.significant_decreases
               = Cardinality(DroppedTwentyPercent)

(***************************************************************************)
(* Order of the steps of run_case                                          *)
(***************************************************************************)
\* the steps of run_case in program order
RunOrder == <<"SAS", "NRCI", "RIS", "BTCA", "supplemental", "composite">>
StepIndex(step) == CHOOSE i \in 1..Len(RunOrder) : RunOrder[i] = step

\* the steps of the present run that have returned
StepsDone ==
    IF pc # "idle" THEN {RunOrder[i] : i \in 1..(StepIndex(pc) - 1)}
    ELSE IF run_result # Nothing THEN {RunOrder[i] : i \in 1..Len(RunOrder)}
    ELSE {}

ScoresOf(snap) ==
    [c \in Components |->
        batch_component_score(c,
            IF snap[c] = Nothing THEN Nothing
            ELSE Some(json_loads(The(snap[c]).data_json)))]

CachedRawScores == The(load_computed(cache, "composite")).data.raw_scores

NoRunInProgress == \A p \in Callers : ppc[p] = "idle"

\* C23: whenever no run is in progress and the runs of the case were
\* serialized, the cached composite's raw_scores are the batch scorers
\* applied to the four bundles now in the cache
C23_SerializedRunsAgreeWithCache ==
    (serialized /\ NoRunInProgress /\ cache["composite"] # Nothing)
        => CachedRawScores = ScoresOf(BundleRows(cache))

\* C23, interleaved runs with an ingest between them: no run is in
\* progress and the cached composite's raw_scores are the scores of no
\* content the four bundle rows ever had together
C23_Witness ==
    /\ ~serialized
    /\ ingests > 0
    /\ NoRunInProgress
    /\ cache["composite"] # Nothing
    /\ \A snap \in snapshots : CachedRawScores # ScoresOf(snap)

(***************************************************************************)
(* Dashboard loader claims                                                 *)
(***************************************************************************)
\* C24: load_all_case_data shows the cache entry of a case whenever the
\* cache is available, also when an export file of the case exists, and
\* falls back to the export only when the cache is not available
C24_CacheReadFirst ==
    all_data # None =>
        \A cid \in DOMAIN all_data : \A m \in DashMetrics :
            all_data[cid][m] =
                IF use_cache
                THEN IF computed_rows[cid][m] # Nothing
                     THEN The(computed_rows[cid][m]) ELSE EmptyDict
                ELSE IF json_export[cid] # Nothing
                     THEN Get(The(json_export[cid]), m, EmptyDict)
                     ELSE EmptyDict

(***************************************************************************)
(* Registry claims                                                         *)
(***************************************************************************)
\* C25: a call of add_dynamic_case keeps every existing registry entry as
\* it is; for a team/season whose id exists it returns the id and changes
\* neither the registry nor the activity log; for a new team/season it adds
\* exactly one entry and appends exactly one case_added event
C25_AddNeverTouchesExisting ==
    [][LET case_id == make_case_id(add_request'.team_abbr, add_request'.season)
       IN  /\ add_result' = case_id
           /\ \A id \in DOMAIN registry :
                 id \in DOMAIN registry' /\ registry'[id] = registry[id]
           /\ IF case_id \in DOMAIN registry
              THEN registry' = registry /\ activity_log' = activity_log
              ELSE /\ DOMAIN registry' = DOMAIN registry \cup {case_id}
                   /\ Len(activity_log') = Len(activity_log) + 1
                   /\ SubSeq(activity_log', 1, Len(activity_log)) = activity_log
                   /\ activity_log'[Len(activity_log')].event = "case_added"
                   /\ activity_log'[Len(activity_log')].case_id = case_id]_vars

\* a second add of a registered team/season, spelled in lower case and
\* with another team name, returned the id and the first entry is kept
C25_Witness ==
    /\ add_request # None
    /\ add_request.team_abbr = <<"u", "t", "a">>
    /\ add_result \in DOMAIN registry
    /\ registry[add_result].team_name # add_request.team_name
    /\ Cardinality(DOMAIN registry) >= 2
    /\ Len(activity_log) = Cardinality(DOMAIN registry)

(***************************************************************************)
(* Elimination: who is reported eliminated                                 *)
(***************************************************************************)
\* max_possible after game k: the wins so far plus the games remaining
MaxPossibleAfter(k) == WinsThrough(k) + (Len(game_logs) - k)

\* C26: the resolver reports "not eliminated" exactly when the team's final
\* win total is at least cutoff_wins; max_possible never increases from one
\* game to the next, and a team whose final wins fall short of the cutoff is
\* reported eliminated at one of its games 1..N
C26_NotEliminatedIffFinalWinsReachCutoff ==
    (elim_result # None /\ ~IsError(elim_result)) =>
        LET cutoff == elim_result.playoff_cutoff_wins
            N == Len(game_logs)
        IN  /\ elim_result.elimination_date = Nothing <=> WinsThrough(N) >= cutoff
            /\ \A k \in 1..(N - 1) : MaxPossibleAfter(k + 1) <= MaxPossibleAfter(k)
            /\ WinsThrough(N) < cutoff =>
                  /\ elim_result.elimination_game_number # Nothing
                  /\ The(elim_result.elimination_game_number) \in 1..N

\* a team one win short of the cutoff, reported eliminated at its final
\* game of a season of several games
C26_Witness ==
    /\ elim_result # None
    /\ ~IsError(elim_result)
    /\ Len(game_logs) = MaxGames
    /\ WinsThrough(Len(game_logs)) = elim_result.playoff_cutoff_wins - 1
    /\ elim_result.elimination_game_number = Some(Len(game_logs))

(***************************************************************************)
(* Split and calendar claims                                               *)
(***************************************************************************)
SeasonGames == Len(season_log)

\* the games the BTCA Post-elimination period counts
BtcaPostElimGames ==
    IF Truthy(split_result.periods, "Post-elimination")
    THEN split_result.periods["Post-elimination"].games ELSE 0

\* C27: no game is pre-elimination for one computation and
\* post-elimination for another: the games the SAS clustering, the NRCI
\* split and the RIS split count as pre-elimination and the games the SAS
\* per-player absences and the BTCA Post-elimination period count as
\* post-elimination are together at most the games of the season
C27_EliminationGameOnOneSide ==
    (split_result # None /\ Truthy(split_result.clustering, "pre_elim_games")) =>
        /\ split_result.clustering.pre_elim_games + BtcaPostElimGames <= SeasonGames
        /\ Truthy(split_result.pre_post_elim, "pre_elim_games") =>
              split_result.pre_post_elim.pre_elim_games + BtcaPostElimGames
                  <= SeasonGames
        /\ split_result.ris.pre_elim_games + BtcaPostElimGames <= SeasonGames
        /\ \A p \in SplitPlayers :
              split_result.clustering.pre_elim_games
                  + split_result.qualified_players[p].post_elim_missed <= SeasonGames

\* C28: pre_elim_absence_rate and post_elim_absence_rate of the SAS
\* clustering lie in [0,1]: the absences counted in a period are at most
\* the qualified players times the games counted in that period
C28_ClusteringRatesInUnitInterval ==
    (split_result # None /\ Truthy(split_result.clustering, "pre_elim_games")) =>
        LET c == split_result.clustering
            num == Cardinality(SplitPlayers)
        IN  /\ c.pre_elim_absence_rate \in 0..Milli
            /\ c.post_elim_absence_rate \in 0..Milli
            /\ c.pre_elim_absences <= num * c.pre_elim_games
            /\ c.post_elim_absences <= num * c.post_elim_games

\* C29: every game is in at most one calendar period: the periods' game
\* counts sum to at most the games of the season, whatever the order of
\* trade deadline, All-Star break and elimination date
C29_PeriodsDisjoint ==
    calendar_result # None =>
        SumOf([name \in DOMAIN calendar_result |-> calendar_result[name].games])
            <= SeasonGames

(***************************************************************************)
(* Preference claims                                                       *)
(***************************************************************************)
\* C30: no preference written by set_pref is lost: whenever no call is in
\* progress, every (case id, key) a finished call wrote holds the value of
\* the latest such call, for any interleaving of the calls of two sessions
C30_NoPreferenceLost ==
    (\A s \in Sessions : session_pc[s] = "idle") =>
        \A e \in PrefCases \X PrefKeys :
            last_written[e] # Nothing =>
                /\ e[1] \in DOMAIN prefs_file
                /\ e[2] \in DOMAIN prefs_file[e[1]]
                /\ prefs_file[e[1]][e[2]] = The(last_written[e])

====
